---------------------------- MODULE Spec2Model ----------------------------
(***************************************************************************)
(* A model of the ypack compiler core: the variable resolver               *)
(* (ypack/resolver.py, ypack/variables.py), the component ID walks and the *)
(* existing-install code generators (converters/nsis_packages.py), the     *)
(* section generators (converters/nsis_sections.py) and the MUI reorder    *)
(* pass (converters/convert_nsis.py), and the run of the emitted           *)
(* existing-install routines on a machine.                                 *)
(*                                                                         *)
(* A text is a sequence of lexical atoms.  The four characters the         *)
(* resolver's regular expressions single out ("$", "{", "}", ".") are      *)
(* atoms of their own; every other atom is a run of characters of one      *)
(* class: an upper-case run ([A-Z_][A-Z0-9_]*, e.g. "INSTDIR") or a run    *)
(* that holds none of the characters "$", "{", "}", "." and neither        *)
(* starts nor ends with an upper-case character (e.g. "app", " is here",   *)
(* "[INSTALLDIR]").  Regular-expression matching on atoms is then the same *)
(* as on characters.                                                       *)
(***************************************************************************)
EXTENDS Integers, Sequences, FiniteSets, TLC

VARIABLES
    target_tool,        \* VariableRegistry.target_tool
    config,             \* VariableResolver.config (the parsed YAML tree)
    text,               \* the argument of the top-level resolve() call
    _resolving_stack,   \* VariableResolver._resolving_stack
    result,             \* outcome of the first resolve(text) call
    again,              \* outcome of resolve(result) on the same resolver
    calls,              \* number of top-level calls made so far
    validation,         \* outcome of validate_references(text, strict)
    script_lines,       \* convert(): the lines handed to _reorder_mui_language
    reordered_lines,    \* convert(): the lines _reorder_mui_language returned
    reorder_calls,      \* number of reorder passes made so far
    ctx,                \* BuildContext: the configuration the generators read
    parts,              \* convert(): the fragment each generator returned
    stage,              \* convert(): number of generators that have run
    script,             \* the script text handed out, by convert() or by save()
    fn,                 \* installer: the emitted Function being executed
    pc,                 \* installer: the line of parts executed next
    regs,               \* installer: the NSIS registers ($0.., $R0.., $INSTDIR)
    nsis_stack,         \* installer: the NSIS stack
    world,              \* installer: the machine the installer runs on
    shown,              \* installer: the message boxes shown and the answers given
    runs,               \* installer: number of times the previous uninstaller was run
    status              \* installer: "running", "returned", "aborted" or "invalid"

resolverVars == <<target_tool, config, text, _resolving_stack, result, again, calls, validation>>

reorderVars == <<script_lines, reordered_lines, reorder_calls>>

convertVars == <<ctx, parts, stage, script>>

runVars == <<fn, pc, regs, nsis_stack, world, shown, runs, status>>

vars == <<resolverVars, reorderVars, convertVars, runVars>>

-----------------------------------------------------------------------------
(* Bounds of the model *)

\* longest text, in pieces of TextPieces, given to resolve()
MaxPieces == 3
\* longest reference cycle a -> b -> ... -> a in a configuration
MaxCycle == 11
\* longest non-cyclic reference chain (number of paths) in a configuration
MaxChain == 13
\* longest script, in lines, given to the reorder pass
MaxLines == 4

-----------------------------------------------------------------------------
(* Sequences *)

RECURSIVE Flatten(_)
Flatten(ss) == IF ss = <<>> THEN <<>> ELSE Head(ss) \o Flatten(Tail(ss))

Last(s) == s[Len(s)]

RECURSIVE SeqsUpTo(_, _)
\* all sequences of at most n elements of S
SeqsUpTo(S, n) ==
    IF n = 0 THEN {<<>>}
    ELSE LET shorter == SeqsUpTo(S, n - 1)
         IN shorter \cup {Append(s, x) : s \in {t \in shorter : Len(t) = n - 1}, x \in S}

-----------------------------------------------------------------------------
(* ypack/variables.py *)

\* VariableDefinition(name, nsis, wix, inno): one token per tool.
\* The Inno token "{app}" is the three atoms "{", "app", "}".
VariableDefinition(nsis, wix, inno) ==
    [nsis |-> <<"$", nsis>>, wix |-> <<wix>>, inno |-> <<"{", inno, "}">>]

BUILTIN_VARIABLES ==
    "INSTDIR"        :> VariableDefinition("INSTDIR", "[INSTALLDIR]", "app") @@
    "PROGRAMFILES"   :> VariableDefinition("PROGRAMFILES", "[ProgramFilesFolder]", "pf") @@
    "PROGRAMFILES64" :> VariableDefinition("PROGRAMFILES64", "[ProgramFiles64Folder]", "pf64") @@
    "APPDATA"        :> VariableDefinition("APPDATA", "[AppDataFolder]", "userappdata") @@
    "LOCALAPPDATA"   :> VariableDefinition("LOCALAPPDATA", "[LocalAppDataFolder]", "localappdata") @@
    "DESKTOP"        :> VariableDefinition("DESKTOP", "[DesktopFolder]", "userdesktop") @@
    "STARTMENU"      :> VariableDefinition("STARTMENU", "[StartMenuFolder]", "userstartmenu") @@
    "SMPROGRAMS"     :> VariableDefinition("SMPROGRAMS", "[ProgramMenuFolder]", "userprograms") @@
    "TEMP"           :> VariableDefinition("TEMP", "[TempFolder]", "tmp") @@
    "WINDIR"         :> VariableDefinition("WINDIR", "[WindowsFolder]", "win") @@
    "SYSDIR"         :> VariableDefinition("SYSDIR", "[SystemFolder]", "sys") @@
    "COMMONFILES"    :> VariableDefinition("COMMONFILES", "[CommonFilesFolder]", "cf") @@
    "COMMONFILES64"  :> VariableDefinition("COMMONFILES64", "[CommonFiles64Folder]", "cf64") @@
    "DOCUMENTS"      :> VariableDefinition("DOCUMENTS", "[PersonalFolder]", "userdocs")

\* upper-case atoms that are no built-in name
OtherUpperAtoms == {"FOO", "M", "N"}

UpperAtoms == DOMAIN BUILTIN_VARIABLES \cup OtherUpperAtoms

IsUpper(atom) == atom \in UpperAtoms

\* Python's None
None == [some |-> FALSE, v |-> <<>>]
Some(v) == [some |-> TRUE, v |-> v]

\* VariableDefinition.get_value: tool_map.get(target_tool.lower()); a missing
\* entry raises a ValueError whose message lists the tools that have one
get_value(var_def, tool) ==
    IF tool \in DOMAIN var_def
    THEN [status |-> "ok", v |-> var_def[tool], mentions |-> {}]
    ELSE [status |-> "ValueError", v |-> <<>>, mentions |-> DOMAIN var_def]

\* VariableRegistry.resolve_builtin_var; var_name is the matched run of
\* upper-case atoms, a built-in name is one atom; 'except ValueError: return None'
resolve_builtin_var(var_name) ==
    IF Len(var_name) = 1 /\ var_name[1] \in DOMAIN BUILTIN_VARIABLES
    THEN LET value == get_value(BUILTIN_VARIABLES[var_name[1]], target_tool)
         IN IF value.status = "ok" THEN Some(value.v) ELSE None
    ELSE None

-----------------------------------------------------------------------------
(* The configuration tree (parsed YAML): a mapping is a sequence of        *)
(* key/value pairs in insertion order, a key is a text.                    *)

StrNode(s)   == [t |-> "str",  s |-> s,    items |-> <<>>]
DictNode(kv) == [t |-> "dict", s |-> <<>>, items |-> kv]
NoneNode     == [t |-> "none", s |-> <<>>, items |-> <<>>]
Pair(k, v)   == [k |-> <<k>>, v |-> v]

\* dict.get(key): None when the key is absent
DictGet(items, key) ==
    IF \E i \in 1..Len(items) : items[i].k = key
    THEN items[CHOOSE i \in 1..Len(items) : items[i].k = key].v
    ELSE NoneNode

RECURSIVE SplitFrom(_, _, _)
\* str.split('.'): the dot-separated keys of a path, empty keys included
SplitFrom(path, i, cur) ==
    IF i > Len(path) THEN <<cur>>
    ELSE IF path[i] = "." THEN <<cur>> \o SplitFrom(path, i + 1, <<>>)
    ELSE SplitFrom(path, i + 1, Append(cur, path[i]))

Split(path) == SplitFrom(path, 1, <<>>)

RECURSIVE WalkPath(_, _, _)
\* the loop of _get_value_by_path over the keys
WalkPath(obj, keys, i) ==
    IF i > Len(keys) THEN obj
    ELSE IF obj.t # "dict" THEN NoneNode
    ELSE LET next == DictGet(obj.items, keys[i])
         IN IF next.t = "none" THEN NoneNode ELSE WalkPath(next, keys, i + 1)

\* VariableResolver._get_value_by_path
_get_value_by_path(path) == WalkPath(config, Split(path), 1)

RECURSIVE Repr(_), ReprItems(_, _)
\* repr() of a value inside a mapping (no quote or backslash occurs in a literal)
Repr(node) ==
    IF node.t = "str" THEN <<"'">> \o node.s \o <<"'">>
    ELSE IF node.t = "none" THEN <<"N", "one">>
    ELSE <<"{">> \o ReprItems(node.items, 1) \o <<"}">>
ReprItems(items, i) ==
    IF i > Len(items) THEN <<>>
    ELSE (IF i > 1 THEN <<", ">> ELSE <<>>)
         \o <<"'">> \o items[i].k \o <<"'", ": ">> \o Repr(items[i].v)
         \o ReprItems(items, i + 1)

\* str(value) of a value found in the tree
Str(node) == IF node.t = "str" THEN node.s ELSE Repr(node)

-----------------------------------------------------------------------------
(* ypack/resolver.py *)

MAX_DEPTH == 10

\* the private placeholder '\x00ESCAPED_DOLLAR\x00', one atom
ESCAPED_DOLLAR == "<NUL>ESCAPED_DOLLAR<NUL>"

\* outcome of a call: a returned text or a raised exception, with the
\* resolution stack the call leaves behind and, for CircularReferenceError,
\* the paths its message names
Returned(s, stack) == [status |-> "ok", text |-> s, stack |-> stack, mentions |-> {}]
Raised(kind, mentions, stack) ==
    [status |-> kind, text |-> <<>>, stack |-> stack, mentions |-> mentions]

\* "if not text": the empty text is returned as it is
IsEmptyText(s) == s = <<>>

\* the depth check left out
DepthNeverExceeded(depth) == FALSE

\* "if depth > self.MAX_DEPTH"
DepthExceeded(depth) == depth > MAX_DEPTH

\* the membership test left out
NeverInResolvingStack(ref_path, stack) == FALSE

\* "if ref_path in self._resolving_stack"
InResolvingStack(ref_path, stack) == ref_path \in stack

\* the path is left on the stack (mutation)
KeepOnStack(stack, ref_path) == stack

\* finally: self._resolving_stack.discard(ref_path)
Discard(stack, ref_path) == stack \ {ref_path}

\* first position >= from holding atom a, 0 if none
IndexFrom(s, a, from) ==
    IF \E i \in from..Len(s) : s[i] = a
    THEN CHOOSE i \in from..Len(s) : s[i] = a /\ \A j \in from..(i - 1) : s[j] # a
    ELSE 0

\* a match of r'\$\{([^}]+)\}' starts at i
ConfigRefAt(s, i) ==
    /\ i + 3 <= Len(s)
    /\ s[i] = "$"
    /\ s[i + 1] = "{"
    /\ s[i + 2] # "}"
    /\ IndexFrom(s, "}", i + 3) # 0

\* the leftmost match at or after from: [start, end], start = 0 if none
NextConfigRef(s, from) ==
    IF \E i \in from..Len(s) : ConfigRefAt(s, i)
    THEN LET i == CHOOSE i \in from..Len(s) :
                      ConfigRefAt(s, i) /\ \A j \in from..(i - 1) : ~ConfigRefAt(s, j)
         IN [start |-> i, end |-> IndexFrom(s, "}", i + 3)]
    ELSE [start |-> 0, end |-> 0]

\* the '$$' protection left out
KeepEscapes(s, i) == s

RECURSIVE ProtectEscapes(_, _)
\* text.replace('$$', '\x00ESCAPED_DOLLAR\x00'): leftmost, non-overlapping
ProtectEscapes(s, i) ==
    IF i > Len(s) THEN <<>>
    ELSE IF s[i] = "$" /\ i < Len(s) /\ s[i + 1] = "$"
         THEN <<ESCAPED_DOLLAR>> \o ProtectEscapes(s, i + 2)
         ELSE <<s[i]>> \o ProtectEscapes(s, i + 1)

\* text.replace('\x00ESCAPED_DOLLAR\x00', '$')
RestoreEscapes(s) == [i \in 1..Len(s) |-> IF s[i] = ESCAPED_DOLLAR THEN "$" ELSE s[i]]

\* end of the greedy run [A-Z_][A-Z0-9_]* that starts at i
RECURSIVE NameEnd(_, _)
NameEnd(s, i) == IF i < Len(s) /\ IsUpper(s[i + 1]) THEN NameEnd(s, i + 1) ELSE i

\* _resolve_builtin_variables.replace_match: whole is match.group(0)
BuiltinReplacement(var_name, whole) ==
    LET resolved == resolve_builtin_var(var_name)
    IN IF resolved.some THEN resolved.v ELSE whole

RECURSIVE BuiltinSub(_, _)
\* re.sub(r'\$([A-Z_][A-Z0-9_]*)', replace_match, text)
BuiltinSub(s, i) ==
    IF i > Len(s) THEN <<>>
    ELSE IF s[i] = "$" /\ i < Len(s) /\ IsUpper(s[i + 1])
         THEN LET e == NameEnd(s, i + 1)
              IN BuiltinReplacement(SubSeq(s, i + 1, e), SubSeq(s, i, e))
                 \o BuiltinSub(s, e + 1)
         ELSE <<s[i]>> \o BuiltinSub(s, i + 1)

\* VariableResolver._resolve_builtin_variables
_resolve_builtin_variables(s) == RestoreEscapes(BuiltinSub(ProtectEscapes(s, 1), 1))

\* what replace_match returns for a path that has no value: match.group(0)
UnknownReference(whole) == whole

\* replace_match without the recursive resolve of the value it found
replace_match_flat(ref_path, whole, depth, stack) ==
    IF InResolvingStack(ref_path, stack)
    THEN Raised("CircularReferenceError", stack \cup {ref_path}, stack)
    ELSE LET value == _get_value_by_path(ref_path)
         IN IF value.t = "none" THEN Returned(UnknownReference(whole), stack)
            ELSE Returned(Str(value), stack)

RECURSIVE resolve(_, _, _), replace_match(_, _, _, _), ConfigSub(_, _, _, _, _),
          _resolve_config_references(_, _, _)

\* VariableResolver.resolve(text, depth), on resolution stack `stack`
resolve(s, depth, stack) ==
    IF IsEmptyText(s) THEN Returned(s, stack)
    ELSE IF DepthExceeded(depth) THEN Raised("RecursionError", {}, stack)
    ELSE LET phase1 == _resolve_config_references(s, depth, stack)
         IN IF phase1.status # "ok" THEN phase1
            ELSE Returned(_resolve_builtin_variables(phase1.text), phase1.stack)

\* _resolve_config_references.replace_match for the match `whole` = ${ref_path}
replace_match(ref_path, whole, depth, stack) ==
    IF InResolvingStack(ref_path, stack)
    THEN Raised("CircularReferenceError", stack \cup {ref_path}, stack)
    ELSE LET pushed == stack \cup {ref_path}
             value  == _get_value_by_path(ref_path)
         IN IF value.t = "none"
            THEN Returned(UnknownReference(whole), Discard(pushed, ref_path))
            ELSE LET resolved == resolve(Str(value), depth + 1, pushed)
                 IN [resolved EXCEPT !.stack = Discard(resolved.stack, ref_path)]

\* re.sub(pattern, replace_match, text): the matches left to right from pos on,
\* out is the output built so far; an exception ends the scan
ConfigSub(s, pos, out, depth, stack) ==
    LET m == NextConfigRef(s, pos)
    IN IF m.start = 0 THEN Returned(out \o SubSeq(s, pos, Len(s)), stack)
       ELSE LET r == replace_match(SubSeq(s, m.start + 2, m.end - 1),
                                   SubSeq(s, m.start, m.end), depth, stack)
            IN IF r.status # "ok" THEN r
               ELSE ConfigSub(s, m.end + 1, out \o SubSeq(s, pos, m.start - 1) \o r.text,
                              depth, r.stack)

\* VariableResolver._resolve_config_references
_resolve_config_references(s, depth, stack) == ConfigSub(s, 1, <<>>, depth, stack)

-----------------------------------------------------------------------------
(* Inputs: configurations, texts, target tools *)

\* create_resolver(config_dict, target_tool): the tools of the registry's tool_map
\* the text '${path}'
RefTo(path) == <<"$", "{">> \o path \o <<"}">>

\* create_resolver: the custom variables are the string entries of config['variables']
custom_vars ==
    LET variables == DictGet(config.items, <<"variables">>)
    IN IF variables.t = "dict"
       THEN {variables.items[i].k : i \in {j \in 1..Len(variables.items) : variables.items[j].v.t = "str"}}
       ELSE {}

\* VariableRegistry.validate_variable(var_name, strict=False)
validate_variable(var_name) ==
    \/ Len(var_name) = 1 /\ var_name[1] \in DOMAIN BUILTIN_VARIABLES
    \/ var_name \in custom_vars

RECURSIVE ConfigRefs(_, _)
\* re.findall(r'\$\{([^}]+)\}', text): the paths, leftmost first, non-overlapping
ConfigRefs(s, from) ==
    LET m == NextConfigRef(s, from)
    IN IF m.start = 0 THEN <<>>
       ELSE <<SubSeq(s, m.start + 2, m.end - 1)>> \o ConfigRefs(s, m.end + 1)

RECURSIVE BuiltinRefs(_, _)
\* re.findall(r'\$([A-Z_][A-Z0-9_]*)', text): the names
BuiltinRefs(s, i) ==
    IF i > Len(s) THEN <<>>
    ELSE IF s[i] = "$" /\ i < Len(s) /\ IsUpper(s[i + 1])
         THEN LET e == NameEnd(s, i + 1)
              IN <<SubSeq(s, i + 1, e)>> \o BuiltinRefs(s, e + 1)
         ELSE BuiltinRefs(s, i + 1)

\* the ValueError names only the first unknown reference (mutation)
validate_references_first(s, strict) ==
    LET refs == SelectSeq(ConfigRefs(s, 1), LAMBDA ref_path : _get_value_by_path(ref_path).t = "none")
        names == SelectSeq(BuiltinRefs(s, 1), LAMBDA var_name : ~validate_variable(var_name))
        unknown == [k \in 1..Len(refs) |-> RefTo(refs[k])] \o [k \in 1..Len(names) |-> <<"$">> \o names[k]]
    IN IF unknown # <<>> /\ strict
       THEN [status |-> "ValueError", unknown |-> <<>>, mentions |-> <<unknown[1]>>]
       ELSE [status |-> "ok", unknown |-> unknown, mentions |-> <<>>]

\* VariableResolver.validate_references(text, strict): the list returned, or the
\* ValueError raised and the references its message names
validate_references(s, strict) ==
    IF IsEmptyText(s) THEN [status |-> "ok", unknown |-> <<>>, mentions |-> <<>>]
    ELSE LET refs == SelectSeq(ConfigRefs(s, 1), LAMBDA ref_path : _get_value_by_path(ref_path).t = "none")
             names == SelectSeq(BuiltinRefs(s, 1), LAMBDA var_name : ~validate_variable(var_name))
             unknown == [k \in 1..Len(refs) |-> RefTo(refs[k])]
                        \o [k \in 1..Len(names) |-> <<"$">> \o names[k]]
         IN IF unknown # <<>> /\ strict
            THEN [status |-> "ValueError", unknown |-> <<>>, mentions |-> unknown]
            ELSE [status |-> "ok", unknown |-> unknown, mentions |-> <<>>]

TargetTools == {"nsis", "wix", "inno"}

KeyNames == <<"a", "b", "c", "d", "e", "f", "g", "h", "i", "j", "k", "l", "m", "n", "o", "p">>

\* a configuration of the shape of the resolver's tests: app.name = 'MyApp',
\* app.note = null, paths.base = '$INSTDIR\${app.name}', esc = '$$INSTDIR'
BaseConfig ==
    DictNode(<<
        Pair("app", DictNode(<<Pair("name", StrNode(<<"M", "yApp">>)),
                               Pair("note", NoneNode)>>)),
        Pair("paths", DictNode(<<Pair("base",
                 StrNode(<<"$", "INSTDIR", "\\">> \o RefTo(<<"app", ".", "name">>)))>>)),
        Pair("esc", StrNode(<<"$", "$", "INSTDIR">>))
    >>)

\* BaseConfig with custom variables: variables.FOO = 'x', variables.N = null
VarsConfig ==
    DictNode(BaseConfig.items \o
             <<Pair("variables", DictNode(<<Pair("FOO", StrNode(<<"x">>)), Pair("N", NoneNode)>>))>>)

\* a: '${b}', b: '${c}', ..., the n-th: a reference to the first
CycleConfig(n) ==
    DictNode([i \in 1..n |-> Pair(KeyNames[i], StrNode(RefTo(<<KeyNames[(i % n) + 1]>>)))])

\* a: '${b}', b: '${c}', ..., the n-th: 'value'
ChainConfig(n) ==
    DictNode([i \in 1..n |->
        Pair(KeyNames[i], StrNode(IF i < n THEN RefTo(<<KeyNames[i + 1]>>) ELSE <<"value">>))])

P_dollar  == <<"$">>
P_name    == RefTo(<<"app", ".", "name">>)
P_base    == RefTo(<<"paths", ".", "base">>)
P_unknown == RefTo(<<"unknown", ".", "path">>)
P_null    == RefTo(<<"app", ".", "note">>)
P_nonmap  == RefTo(<<"app", ".", "name", ".", "x">>)
P_instdir == <<"$", "INSTDIR">>
P_foo     == <<"$", "FOO">>
P_rest    == <<" is here">>
P_esc     == RefTo(<<"esc">>)
P_odd     == RefTo(<<"$", "INSTDIR">>)

TextPieces == {P_dollar, P_name, P_base, P_unknown, P_null, P_nonmap,
               P_instdir, P_foo, P_rest, P_esc, P_odd}

\* the texts resolved against BaseConfig
Texts == {Flatten(ps) : ps \in SeqsUpTo(TextPieces, MaxPieces)}

\* '$$NAME is here' for every NAME, the built-in names included
EscapedNames == {<<"$", "$", name>> \o P_rest : name \in UpperAtoms}

ResolverInputs ==
    {<<BaseConfig, t>> : t \in Texts \cup EscapedNames}
    \cup UNION {{<<CycleConfig(n), RefTo(<<KeyNames[j]>>)>> : j \in 1..n} : n \in 1..MaxCycle}
    \cup {<<ChainConfig(n), RefTo(<<KeyNames[1]>>)>> : n \in 1..MaxChain}

\* the configurations and texts validate_references is called with
ValidateInputs ==
    {<<BaseConfig, t>> : t \in Texts \cup EscapedNames}
    \cup {<<VarsConfig, Flatten(ps)>> :
             ps \in SeqsUpTo({P_dollar, P_unknown, P_instdir, P_foo, P_rest}, MaxPieces)}

\* a target tool that no built-in variable has a token for, and the texts
\* resolved for it against BaseConfig
UnsupportedInputs ==
    {<<"msi", BaseConfig, Flatten(ps)>> :
        ps \in SeqsUpTo({P_dollar, P_base, P_instdir, P_foo, P_rest}, MaxPieces)}

NoResult == [status |-> "none", text |-> <<>>, stack |-> {}, mentions |-> {}]

NoValidation == [strict |-> FALSE, status |-> "none", unknown |-> <<>>, mentions |-> <<>>]

\* no resolver call is in progress or was made
ResolverIdle ==
    /\ target_tool = "nsis"
    /\ config = DictNode(<<>>)
    /\ text = <<>>
    /\ _resolving_stack = {}
    /\ result = NoResult
    /\ again = NoResult
    /\ calls = 0
    /\ validation = NoValidation

\* no reorder pass was made
ReorderIdle ==
    /\ script_lines = <<>>
    /\ reordered_lines = <<>>
    /\ reorder_calls = 0

\* no script text was handed out
NoScript == [by |-> "none", lines |-> <<>>]

\* no conversion was started
ConvertIdle ==
    /\ ctx = <<>>
    /\ parts = <<>>
    /\ stage = 0
    /\ script = NoScript

\* no installer is running
RunIdle ==
    /\ fn = ""
    /\ pc = 0
    /\ regs = <<>>
    /\ nsis_stack = <<>>
    /\ world = <<>>
    /\ shown = <<>>
    /\ runs = 0
    /\ status = "idle"

-----------------------------------------------------------------------------
(* The resolver as a state machine: a resolver is created, resolve(text)   *)
(* is called, and resolve is called once more on what it returned.         *)

\* create_resolver(config_dict, target_tool)
InitResolver ==
    /\ \E inp \in {<<tool, i[1], i[2]>> : tool \in TargetTools, i \in ResolverInputs}
                    \cup UnsupportedInputs :
          target_tool = inp[1] /\ config = inp[2] /\ text = inp[3]
    /\ _resolving_stack = {}
    /\ result = NoResult
    /\ again = NoResult
    /\ calls = 0
    /\ validation = NoValidation
    /\ ReorderIdle
    /\ ConvertIdle
    /\ RunIdle

\* resolver.resolve(text)
Resolve ==
    /\ calls = 0
    /\ LET out == resolve(text, 0, _resolving_stack)
       IN /\ result' = out
          /\ _resolving_stack' = out.stack
    /\ calls' = 1
    /\ UNCHANGED <<target_tool, config, text, again, validation, reorderVars, convertVars, runVars>>

\* resolver.resolve(r) for the text r the first call returned
ResolveAgain ==
    /\ calls = 1
    /\ result.status = "ok"
    /\ LET out == resolve(result.text, 0, _resolving_stack)
       IN /\ again' = out
          /\ _resolving_stack' = out.stack
    /\ calls' = 2
    /\ UNCHANGED <<target_tool, config, text, result, validation, reorderVars, convertVars, runVars>>

\* resolver.validate_references(text, strict)
ValidateReferences ==
    /\ validation = NoValidation
    /\ \E strict \in BOOLEAN :
          LET out == validate_references(text, strict)
          IN validation' = [strict |-> strict, status |-> out.status, unknown |-> out.unknown,
                            mentions |-> out.mentions]
    /\ UNCHANGED <<target_tool, config, text, _resolving_stack, result, again, calls,
                   reorderVars, convertVars, runVars>>

NextResolver == Resolve \/ ResolveAgain

SpecResolver == InitResolver /\ [][NextResolver]_vars

\* create_resolver(config_dict): a resolver whose references are validated
InitValidate ==
    /\ target_tool = "nsis"
    /\ \E inp \in ValidateInputs : config = inp[1] /\ text = inp[2]
    /\ _resolving_stack = {}
    /\ result = NoResult
    /\ again = NoResult
    /\ calls = 0
    /\ validation = NoValidation
    /\ ReorderIdle
    /\ ConvertIdle
    /\ RunIdle

NextValidate == ValidateReferences

SpecValidate == InitValidate /\ [][NextValidate]_vars

-----------------------------------------------------------------------------
(* Properties of the resolver, checked under SpecResolver *)

\* the paths of the cycle of CycleConfig(n)
CyclePaths(n) == {<<KeyNames[i]>> : i \in 1..n}

\* C1: when the paths of a configuration form a cycle that is reached within
\* the depth ceiling (n <= MAX_DEPTH paths: a -> a, a -> b -> a, a -> b -> c -> a,
\* ...), resolving a reference to a path of the cycle raises
\* CircularReferenceError, its message names every path of the cycle, and the
\* resolution stack is empty again afterwards.
C1_CycleRaises ==
    \A n \in 1..MAX_DEPTH :
        (calls >= 1 /\ config = CycleConfig(n) /\ text \in {RefTo(p) : p \in CyclePaths(n)})
        => /\ result.status = "CircularReferenceError"
           /\ CyclePaths(n) \subseteq result.mentions
           /\ _resolving_stack = {}

C1_Witness ==
    /\ calls = 1
    /\ config = CycleConfig(2)
    /\ text = RefTo(<<"a">>)
    /\ result.status = "CircularReferenceError"
    /\ result.mentions = {<<"a">>, <<"b">>}

\* C2: in a non-cyclic chain (every literal a reference to the next path, the
\* last one a plain value) in which more than MAX_DEPTH references lead from
\* the text to the plain value, resolving a reference to the first path raises
\* RecursionError and returns no value.
C2_DeepChainRaises ==
    \A n \in 1..MaxChain :
        (calls >= 1 /\ n > MAX_DEPTH /\ config = ChainConfig(n) /\ text = RefTo(<<"a">>))
        => result.status = "RecursionError" /\ result.text = <<>>

C2_Witness ==
    /\ calls = 1
    /\ config = ChainConfig(12)
    /\ text = RefTo(<<"a">>)
    /\ result.status = "RecursionError"

\* C3: for every tool and every NAME, built-in or not, resolve('$$NAME is here')
\* returns '$NAME is here'.
C3_EscapedDollar ==
    \A name \in UpperAtoms :
        (calls >= 1 /\ text = <<"$", "$", name>> \o P_rest)
        => result.status = "ok" /\ result.text = <<"$", name>> \o P_rest

C3_Witness ==
    /\ calls = 1
    /\ target_tool = "inno"
    /\ text = <<"$", "$", "INSTDIR">> \o P_rest
    /\ result.text = <<"$", "INSTDIR">> \o P_rest

\* the references of TextPieces that have no value: a missing key, a null
\* value, a non-mapping intermediate node, a name that is no built-in, and a
\* missing key that is spelled '$INSTDIR'
UnknownPieces == {P_unknown, P_null, P_nonmap, P_foo, P_odd}

\* text = pre \o u \o post with the reference u at position i, and the text
\* resolve returns for pre does not end in a '$' that would escape u
StandsAlone(u, s, i) ==
    /\ i + Len(u) - 1 <= Len(s)
    /\ SubSeq(s, i, i + Len(u) - 1) = u
    /\ LET pre == resolve(SubSeq(s, 1, i - 1), 0, {})
       IN pre.status = "ok" /\ (pre.text = <<>> \/ Last(pre.text) # "$")

\* C4: an unknown reference passes through: whenever a text holds a reference
\* u that has no value, resolve raises no error and returns what it returns
\* for the part before u, then u unchanged, then what it returns for the part
\* after u.
C4_UnknownPassThrough ==
    calls >= 1 =>
        \A u \in UnknownPieces : \A i \in 1..Len(text) :
            StandsAlone(u, text, i)
            => /\ result.status = "ok"
               /\ result.text = resolve(SubSeq(text, 1, i - 1), 0, {}).text \o u
                     \o resolve(SubSeq(text, i + Len(u), Len(text)), 0, {}).text

\* every '$' of s starts a '$NAME' or a '${path}' whose path holds no '$'
WellFormed(s) ==
    \A i \in 1..Len(s) :
        s[i] = "$" =>
            \/ i < Len(s) /\ IsUpper(s[i + 1])
            \/ /\ ConfigRefAt(s, i)
               /\ \A j \in (i + 2)..(IndexFrom(s, "}", i + 3) - 1) : s[j] # "$"

\* the paths s refers to
RefPaths(s) ==
    {SubSeq(s, i + 2, IndexFrom(s, "}", i + 3) - 1) : i \in {j \in 1..Len(s) : ConfigRefAt(s, j)}}

RECURSIVE Plain(_, _)
\* s and every value substituted while s is resolved are well-formed
Plain(s, fuel) ==
    /\ WellFormed(s)
    /\ \/ fuel = 0
       \/ \A p \in RefPaths(s) :
              LET value == _get_value_by_path(p)
              IN value.t = "none" \/ Plain(Str(value), fuel - 1)

\* C5 as stated: resolve(resolve(t)) = resolve(t) for every text t on which
\* resolve returns.
C5_Idempotent ==
    calls = 2 => again.status = "ok" /\ again.text = result.text

\* C5 amended: resolve(resolve(t)) = resolve(t) for every text t on which
\* resolve returns and in which, as in every value substituted while t is
\* resolved, every '$' starts a '$NAME' or a '${path}' with no '$' in the path
\* (so that there is no '$$' and no stray '$').
C5_IdempotentOnPlain ==
    (calls = 2 /\ Plain(text, MAX_DEPTH + 1))
    => again.status = "ok" /\ again.text = result.text

C5_Witness ==
    /\ calls = 2
    /\ target_tool = "wix"
    /\ text = P_base \o P_foo \o P_unknown
    /\ Plain(text, MAX_DEPTH + 1)
    /\ result.text = <<"[INSTALLDIR]", "\\", "M", "yApp">> \o P_foo \o P_unknown
    /\ again.text = result.text

-----------------------------------------------------------------------------
(* converters/convert_nsis.py: the reorder pass.  A line is a sequence of   *)
(* atoms: runs of white space are atoms of their own, and each prefix the   *)
(* pass tests for is one atom, so that startswith compares the first atom.  *)

WhiteSpace == {"  "}

RECURSIVE lstrip(_)
lstrip(line) ==
    IF line # <<>> /\ Head(line) \in WhiteSpace THEN lstrip(Tail(line)) ELSE line

RECURSIVE rstrip(_)
rstrip(line) ==
    IF line # <<>> /\ Last(line) \in WhiteSpace
    THEN rstrip(SubSeq(line, 1, Len(line) - 1)) ELSE line

\* line.strip()
strip(line) == rstrip(lstrip(line))

\* stripped.startswith(prefix)
startswith(stripped, prefix) == stripped # <<>> /\ Head(stripped) = prefix

\* the test that sets found_last_page
IsPageDirective(line) ==
    \/ startswith(strip(line), "!insertmacro MUI_PAGE")
    \/ startswith(strip(line), "!insertmacro MUI_UNPAGE")
    \/ startswith(strip(line), "Page custom")

IsLanguageDirective(line) == startswith(strip(line), "!insertmacro MUI_LANGUAGE")

IsLangStringDef(line) == startswith(strip(line), "LangString ")

\* the insertion point left at the first page directive instead of the last
FirstPageOnly(found_last_page, other_lines) ==
    IF found_last_page >= 0 THEN found_last_page ELSE Len(other_lines)

\* "found_last_page = len(other_lines)": the 0-based index the page line gets
LastPageSeen(found_last_page, other_lines) == Len(other_lines)

RECURSIVE ClassifyLines(_, _, _)
\* the loop over enumerate(lines), from line i on; acc holds the loop's locals
ClassifyLines(lines, i, acc) ==
    IF i > Len(lines) THEN acc
    ELSE LET line == lines[i]
             flp  == IF IsPageDirective(line)
                     THEN LastPageSeen(acc.found_last_page, acc.other_lines)
                     ELSE acc.found_last_page
             seen == [acc EXCEPT !.found_last_page = flp]
         IN ClassifyLines(lines, i + 1,
                IF IsLanguageDirective(line)
                THEN [seen EXCEPT !.language_directives = Append(@, line)]
                ELSE IF IsLangStringDef(line)
                THEN [seen EXCEPT !.langstring_defs = Append(@, line)]
                ELSE [seen EXCEPT !.other_lines = Append(@, line)])

\* the reorder made whatever the script holds
AlwaysReorder(found_last_page, language_directives) == TRUE

\* "if found_last_page >= 0 and language_directives"
ShouldReorder(found_last_page, language_directives) ==
    found_last_page >= 0 /\ language_directives # <<>>

\* YamlToNsisConverter._reorder_mui_language
_reorder_mui_language(lines) ==
    LET acc == ClassifyLines(lines, 1,
                   [language_directives |-> <<>>, langstring_defs |-> <<>>,
                    other_lines |-> <<>>, found_last_page |-> -1])
    IN IF ShouldReorder(acc.found_last_page, acc.language_directives)
       THEN SubSeq(acc.other_lines, 1, acc.found_last_page + 1)
            \o acc.language_directives
            \o acc.langstring_defs
            \o SubSeq(acc.other_lines, acc.found_last_page + 2, Len(acc.other_lines))
       ELSE lines

L_page    == <<"!insertmacro MUI_PAGE", "_WELCOME">>
L_unpage  == <<"  ", "!insertmacro MUI_UNPAGE", "_CONFIRM">>
L_custom  == <<"Page custom", " ShortcutsPage">>
L_english == <<"  ", "!insertmacro MUI_LANGUAGE", " \"English\"">>
L_chinese == <<"!insertmacro MUI_LANGUAGE", " \"SimpChinese\"">>
L_title   == <<"LangString ", "TITLE ${LANG_ENGLISH} \"Shortcuts\"">>
L_text    == <<"  ", "LangString ", "TEXT ${LANG_ENGLISH} \"Choose\"", "  ">>
L_section == <<"Section", " \"Install\"">>
L_langdll == <<"!insertmacro MUI_LANGDLL_DISPLAY">>

\* the lines a script is made of
ScriptLines == {L_page, L_unpage, L_custom, L_english, L_chinese,
                L_title, L_text, L_section, L_langdll}

\* convert() has joined and split the parts
InitReorder ==
    /\ script_lines \in SeqsUpTo(ScriptLines, MaxLines)
    /\ reordered_lines = <<>>
    /\ reorder_calls = 0
    /\ ResolverIdle
    /\ ConvertIdle
    /\ RunIdle

\* reordered_lines = self._reorder_mui_language(script_lines)
Reorder ==
    /\ reorder_calls = 0
    /\ reordered_lines' = _reorder_mui_language(script_lines)
    /\ reorder_calls' = 1
    /\ UNCHANGED <<script_lines, resolverVars, convertVars, runVars>>

NextReorder == Reorder

SpecReorder == InitReorder /\ [][NextReorder]_vars

-----------------------------------------------------------------------------
(* Properties of the reorder pass, checked under SpecReorder *)

Positions(lines, Test(_)) == {i \in 1..Len(lines) : Test(lines[i])}

\* C7: when the script holds at least one page directive and at least one
\* language directive, after the pass every language directive stands after
\* every page directive and every LangString line after every language
\* directive.
C7_LanguagesAfterPages ==
    (/\ reorder_calls = 1
     /\ Positions(script_lines, IsPageDirective) # {}
     /\ Positions(script_lines, IsLanguageDirective) # {})
    => /\ \A l \in Positions(reordered_lines, IsLanguageDirective) :
              \A q \in Positions(reordered_lines, IsPageDirective) : q < l
       /\ \A d \in Positions(reordered_lines, IsLangStringDef) :
              \A l \in Positions(reordered_lines, IsLanguageDirective) : l < d

C7_Witness ==
    /\ reorder_calls = 1
    /\ script_lines = <<L_title, L_english, L_page>>
    /\ reordered_lines = <<L_page, L_english, L_title>>

IsOtherLine(line) == ~IsLanguageDirective(line) /\ ~IsLangStringDef(line)

Count(lines, line) == Cardinality({i \in 1..Len(lines) : lines[i] = line})

\* C8: the output of the pass is a permutation of its input; the language
\* directives keep their relative order, so do the LangString lines and so do
\* all other lines; and a script without a page directive or without a
\* language directive is returned as it is.
C8_OnlyLanguagesMove ==
    reorder_calls = 1 =>
        /\ Len(reordered_lines) = Len(script_lines)
        /\ \A line \in ScriptLines :
               Count(reordered_lines, line) = Count(script_lines, line)
        /\ SelectSeq(reordered_lines, IsLanguageDirective)
               = SelectSeq(script_lines, IsLanguageDirective)
        /\ SelectSeq(reordered_lines, IsLangStringDef)
               = SelectSeq(script_lines, IsLangStringDef)
        /\ SelectSeq(reordered_lines, IsOtherLine) = SelectSeq(script_lines, IsOtherLine)
        /\ (\/ Positions(script_lines, IsPageDirective) = {}
            \/ Positions(script_lines, IsLanguageDirective) = {})
           => reordered_lines = script_lines

C8_Witness ==
    /\ reorder_calls = 1
    /\ script_lines = <<L_chinese, L_title, L_english, L_page>>
    /\ reordered_lines = <<L_page, L_chinese, L_english, L_title>>

-----------------------------------------------------------------------------
(* converters/nsis_packages.py, converters/nsis_sections.py: the script    *)
(* generators.  A generator returns a list of script lines; a line is       *)
(* modelled by the instruction it holds: its operation, its operands and    *)
(* its jump targets ("0" and "+n" are relative targets, any other target     *)
(* names a label).  A label line is the operation "label".  Comment lines   *)
(* and empty lines hold no instruction and are left out.                    *)
(* The build context c holds the validated configuration: c.languages,      *)
(* c.logging (cfg.logging and cfg.logging.enabled), c.verify_signature,     *)
(* c.effective_reg_view, c.install and c.packages.  No system requirement,  *)
(* file, registry entry or file association is configured.                  *)

Ins(op, args, jumps) == [op |-> op, args |-> args, jumps |-> jumps]

LabelLine(name) == Ins("label", <<name>>, <<>>)

\* '  !insertmacro <macro> "<message>"'
InsertMacro(macro, message) == Ins("!insertmacro", <<macro, message>>, <<>>)

\* the lines are never added (mutation)
IfNever(cond, lines) == <<>>

\* the lines a list of lines holds if cond, as in "if cond: lines.extend([...])"
If(cond, lines) == IF cond THEN lines ELSE <<>>

\* "'$(NAME)' if cfg.languages else '<English text>'"
Localized(c, name, english) == IF c.languages # <<>> THEN "$(" \o name \o ")" ELSE english

\* _generate_existing_install_check, "if ei.version_check or ei.show_version_info":
\* reading the installed version, then "if ei.version_check"
ExistingInstallVersion(c) ==
    LET ei == c.install.existing_install
    IN If(ei.version_check \/ ei.show_version_info,
          << Ins("StrCpy", <<"$R6", "ProductVersion">>, <<>>),
             Ins("Push", <<"$R1\\Uninstall.exe">>, <<>>),
             Ins("Call", <<"_YPACK_GetFileProductVersion">>, <<>>),
             Ins("Pop", <<"$R2">>, <<>>),
             Ins("StrCmp", <<"$R2", "">>, <<"0", "_ei_ver_done">>),
             Ins("StrCpy", <<"$R6", "FileVersionFixed">>, <<>>),
             Ins("GetDLLVersion", <<"$R1\\Uninstall.exe", "$0", "$1">>, <<>>),
             Ins("StrCmp", <<"$0", "0">>, <<"+2", "0">>),
             Ins("Goto", <<>>, <<"+3">>),
             Ins("StrCmp", <<"$1", "0">>, <<"+2", "0">>),
             Ins("Goto", <<>>, <<"+1">>),
             Ins("StrCpy", <<"$R2", "">>, <<>>),
             Ins("IntOp", <<"$2", "$0", ">>", "16">>, <<>>),
             Ins("IntOp", <<"$3", "$0", "&", "0xFFFF">>, <<>>),
             Ins("IntOp", <<"$4", "$1", ">>", "16">>, <<>>),
             Ins("IntOp", <<"$5", "$1", "&", "0xFFFF">>, <<>>),
             Ins("StrCpy", <<"$R2", "$2.$3.$4.$5">>, <<>>),
             Ins("StrCmp", <<"$R2", "0.0.0.0">>, <<"0", "+2">>),
             Ins("StrCpy", <<"$R2", "">>, <<>>),
             LabelLine("_ei_ver_done") >>
          \o If(c.logging,
                << InsertMacro("_YPACK_DebugLog",
                       "[YPACK] ExistingInstall: resolved version=$R2 source=$R6 (path=$R1)") >>))
       \o If(ei.version_check,
             << Ins("StrCmp", <<"$R2", "${APP_VERSION}">>, <<"_ei_done", "0">>),
                Ins("StrCmp", <<"$R2", "${APP_VERSION_VI}">>, <<"_ei_done">>) >>)

\* _generate_existing_install_check, "if ei.mode == ...": the decision of the mode
ExistingInstallDecision(c) ==
    LET ei == c.install.existing_install
        prompt_ver == Localized(c, "EXISTING_INSTALL_PROMPT",
            "An existing installation (version $R2) was found at:$\\r$\\n$R1$\\r$\\n$\\r$\\nUninstall it first and continue?")
        prompt_no_ver == Localized(c, "EXISTING_INSTALL_PROMPT_NO_VER",
            "An existing installation was found at:$\\r$\\n$R1$\\r$\\n$\\r$\\nUninstall it first and continue?")
        abort_ver == Localized(c, "EXISTING_INSTALL_ABORT",
            "An existing installation (version $R2) was found at $R1. Installation aborted.")
        abort_no_ver == Localized(c, "EXISTING_INSTALL_ABORT_NO_VER",
            "An existing installation was found at $R1. Installation aborted.")
    IN CASE ei.mode = "prompt_uninstall" ->
              IF ei.show_version_info
              THEN << Ins("StrCmp", <<"$R2", "">>, <<"_ei_prompt_no_ver", "0">>),
                      Ins("MessageBox", <<"MB_YESNO|MB_ICONQUESTION", prompt_ver, "IDYES", "IDNO">>,
                          <<"_ei_do_uninstall", "_ei_cancel">>),
                      Ins("Goto", <<>>, <<"_ei_prompt_done">>),
                      LabelLine("_ei_prompt_no_ver"),
                      Ins("MessageBox", <<"MB_YESNO|MB_ICONQUESTION", prompt_no_ver, "IDYES", "IDNO">>,
                          <<"_ei_do_uninstall", "_ei_cancel">>),
                      LabelLine("_ei_prompt_done") >>
              ELSE << Ins("MessageBox", <<"MB_YESNO|MB_ICONQUESTION", prompt_no_ver, "IDYES", "IDNO">>,
                          <<"_ei_do_uninstall", "_ei_cancel">>) >>
         [] ei.mode = "auto_uninstall" ->
              << Ins("Goto", <<>>, <<"_ei_do_uninstall">>) >>
         [] ei.mode = "abort" ->
              IF ei.show_version_info
              THEN << Ins("StrCmp", <<"$R2", "">>, <<"_ei_abort_no_ver", "0">>),
                      Ins("MessageBox", <<"MB_OK|MB_ICONSTOP", abort_ver>>, <<>>),
                      Ins("Goto", <<>>, <<"_eid_cancel">>),
                      LabelLine("_ei_abort_no_ver"),
                      Ins("MessageBox", <<"MB_OK|MB_ICONSTOP", abort_no_ver>>, <<>>),
                      Ins("Goto", <<>>, <<"_eid_cancel">>) >>
              ELSE << Ins("MessageBox", <<"MB_OK|MB_ICONSTOP", abort_no_ver>>, <<>>),
                      Ins("Goto", <<>>, <<"_eid_cancel">>) >>
         [] ei.mode = "overwrite" ->
              << Ins("Goto", <<>>, <<"_ei_done">>) >>
         [] OTHER -> <<>>

\* the wait never times out (mutation: it always does)
AlwaysTimed(wait_ms) == FALSE

\* "if wait_ms is not None and int(wait_ms) < 0": the wait has no timeout
NoTimeout(wait_ms) == wait_ms < 0

\* _generate_existing_install_check, "if wait_ms is not None and int(wait_ms) < 0 ... else":
\* running the previous uninstaller and waiting for it
ExistingInstallUninstall(c) ==
    LET ei == c.install.existing_install
        uninst_args == IF ei.uninstaller_args = "" THEN "/S" ELSE ei.uninstaller_args
        wait_ms == ei.uninstall_wait_ms
        prompt_text == Localized(c, "UNINSTALL_NOT_FINISHED",
            "The previous uninstaller did not finish.  Retry or cancel installation?")
        running == "Running existing uninstaller: $R1\\Uninstall.exe " \o uninst_args
    IN IF NoTimeout(wait_ms)
       THEN << LabelLine("_ei_do_uninstall") >>
            \o If(c.logging,
                  << InsertMacro("LogWrite", running),
                     InsertMacro("LogWrite", "Waiting for uninstaller to finish (no timeout)") >>)
            \o << Ins("ExecWait", <<"$R1\\Uninstall.exe " \o uninst_args, "$R4">>, <<>>),
                  Ins("StrCpy", <<"$R3", "0">>, <<>>),
                  LabelLine("_ei_wait_loop"),
                  Ins("Sleep", <<"500">>, <<>>),
                  Ins("IntOp", <<"$R3", "$R3", "+", "500">>, <<>>),
                  Ins("IfFileExists", <<"$R1\\Uninstall.exe">>, <<"_ei_wait_loop", "_ei_wait_done">>),
                  LabelLine("_ei_wait_done"),
                  Ins("IfFileExists", <<"$R1\\Uninstall.exe">>, <<"0", "_ei_done">>) >>
            \o If(c.logging, << InsertMacro("LogWrite", "Uninstaller finished.") >>)
            \o << Ins("MessageBox", <<"MB_RETRYCANCEL|MB_ICONEXCLAMATION", prompt_text, "IDRETRY">>,
                      <<"_ei_do_uninstall">>) >>
       ELSE << LabelLine("_ei_do_uninstall") >>
            \o If(c.logging,
                  << InsertMacro("LogWrite", running),
                     InsertMacro("LogWrite", "Waiting for uninstaller to finish (up to "
                                                 \o ToString(wait_ms) \o "ms)") >>)
            \o << Ins("ExecWait", <<"$R1\\Uninstall.exe " \o uninst_args, "$R4">>, <<>>),
                  Ins("StrCmp", <<"$R4", "0">>, <<"_ei_done">>),
                  Ins("StrCpy", <<"$R3", "0">>, <<>>),
                  LabelLine("_ei_wait_loop"),
                  Ins("IntCmp", <<"$R3", ToString(wait_ms)>>,
                      <<"_ei_wait_done", "_ei_wait_done", "_ei_wait_continue">>),
                  LabelLine("_ei_wait_continue"),
                  Ins("Sleep", <<"500">>, <<>>),
                  Ins("IntOp", <<"$R3", "$R3", "+", "500">>, <<>>),
                  Ins("IfFileExists", <<"$R1\\Uninstall.exe">>, <<"_ei_wait_loop", "_ei_wait_done">>),
                  LabelLine("_ei_wait_done"),
                  Ins("IfFileExists", <<"$R1\\Uninstall.exe">>, <<"0", "_ei_done">>) >>
            \o If(c.logging,
                  << InsertMacro("LogWrite", "Uninstaller finished."),
                     InsertMacro("LogWrite", "Uninstaller returned a non-zero exit code.") >>)
            \o << Ins("MessageBox", <<"MB_RETRYCANCEL|MB_ICONEXCLAMATION", prompt_text, "IDRETRY">>,
                      <<"_ei_do_uninstall">>) >>

\* _generate_existing_install_check: the lines .onInit holds for the existing installation
_generate_existing_install_check(c) ==
    LET ei == c.install.existing_install
    IN IF ei.mode = "none" THEN <<>>
       ELSE IF ei.allow_multiple THEN <<>>
       ELSE << Ins("SetRegView", <<c.effective_reg_view>>, <<>>),
               Ins("ReadRegStr", <<"$R0", "HKLM", "${REG_KEY}", "InstallPath">>, <<>>),
               Ins("StrCmp", <<"$R0", "">>, <<"_ei_done">>),
               Ins("StrCpy", <<"$R1", "$R0">>, <<>>),
               Ins("IfFileExists", <<"$R1\\Uninstall.exe">>, <<"_ei_has_uninst", "_ei_overwrite_only">>),
               LabelLine("_ei_has_uninst") >>
            \o ExistingInstallVersion(c)
            \o ExistingInstallDecision(c)
            \o ExistingInstallUninstall(c)
            \o << LabelLine("_ei_cancel"),
                  Ins("Abort", <<>>, <<>>),
                  LabelLine("_ei_overwrite_only"),
                  LabelLine("_ei_done"),
                  Ins("SetRegView", <<"lastused">>, <<>>) >>

\* generate_existing_install_helpers, "Function _YPACK_GetFileProductVersion"
_YPACK_GetFileProductVersion ==
    << Ins("Function", <<"_YPACK_GetFileProductVersion">>, <<>>),
       Ins("Exch", <<"$0">>, <<>>),
       Ins("Push", <<"$1">>, <<>>), Ins("Push", <<"$2">>, <<>>), Ins("Push", <<"$3">>, <<>>),
       Ins("Push", <<"$4">>, <<>>), Ins("Push", <<"$5">>, <<>>), Ins("Push", <<"$6">>, <<>>),
       Ins("Push", <<"$7">>, <<>>), Ins("Push", <<"$8">>, <<>>),
       Ins("StrCpy", <<"$9", "">>, <<>>),
       InsertMacro("_YPACK_DebugLog", "[YPACK] VerInfo: reading ProductVersion from: $0"),
       Ins("System::Call", <<"version::GetFileVersionInfoSizeW(w r0, *i .r1) i .r2">>, <<>>),
       InsertMacro("_YPACK_DebugLog", "[YPACK] VerInfo: GetFileVersionInfoSizeW -> size=$2"),
       Ins("StrCmp", <<"$2", "0">>, <<"_ypack_ver_done">>),
       Ins("System::Alloc", <<"$2">>, <<>>),
       Ins("Pop", <<"$3">>, <<>>),
       InsertMacro("_YPACK_DebugLog", "[YPACK] VerInfo: Alloc -> ptr=$3"),
       Ins("StrCmp", <<"$3", "0">>, <<"_ypack_ver_done">>),
       Ins("System::Call", <<"version::GetFileVersionInfoW(w r0, i 0, i r2, i r3) i .r4">>, <<>>),
       InsertMacro("_YPACK_DebugLog", "[YPACK] VerInfo: GetFileVersionInfoW -> ok=$4"),
       Ins("StrCmp", <<"$4", "0">>, <<"_ypack_ver_free">>),
       Ins("System::Call",
           <<"version::VerQueryValueW(i r3, w \"\\VarFileInfo\\Translation\", *p .r5, *i .r6) i .r7">>, <<>>),
       InsertMacro("_YPACK_DebugLog", "[YPACK] VerInfo: Translation query -> ok=$7 ptr=$5 len=$6"),
       Ins("StrCmp", <<"$7", "0">>, <<"_ypack_ver_fallback_lang">>),
       Ins("System::Call", <<"*$5(&i .r8)">>, <<>>),
       Ins("IntOp", <<"$6", "$8", "&", "0xFFFF">>, <<>>),
       Ins("IntOp", <<"$7", "$8", ">>", "16">>, <<>>),
       Ins("IntFmt", <<"$1", "%04X", "$6">>, <<>>),
       Ins("IntFmt", <<"$2", "%04X", "$7">>, <<>>),
       Ins("StrCpy", <<"$1", "$1$2">>, <<>>),
       Ins("StrCmp", <<"$1", "00000000">>, <<"_ypack_ver_fallback_lang">>),
       Ins("Goto", <<>>, <<"_ypack_ver_query">>),
       LabelLine("_ypack_ver_fallback_lang"),
       Ins("StrCpy", <<"$1", "040904B0">>, <<>>),
       Ins("Goto", <<>>, <<"_ypack_ver_query">>),
       LabelLine("_ypack_ver_query"),
       Ins("StrCpy", <<"$2", "\\StringFileInfo\\$1\\ProductVersion">>, <<>>),
       InsertMacro("_YPACK_DebugLog", "[YPACK] VerInfo: Query ProductVersion with langcp=$1"),
       Ins("System::Call", <<"version::VerQueryValueW(i r3, w r2, *p .r5, *i .r6) i .r7">>, <<>>),
       Ins("StrCmp", <<"$7", "0">>, <<"_ypack_ver_try_next_lang">>),
       Ins("System::Call", <<"*$5(&t${NSIS_MAX_STRLEN} .r9)">>, <<>>),
       InsertMacro("_YPACK_DebugLog", "[YPACK] VerInfo: ProductVersion=$9"),
       Ins("StrCmp", <<"$9", "">>, <<"0", "_ypack_ver_ok">>),
       Ins("StrCpy", <<"$2", "\\StringFileInfo\\$1\\FileVersion">>, <<>>),
       InsertMacro("_YPACK_DebugLog", "[YPACK] VerInfo: ProductVersion empty; trying FileVersion string"),
       Ins("System::Call", <<"version::VerQueryValueW(i r3, w r2, *p .r5, *i .r6) i .r7">>, <<>>),
       Ins("StrCmp", <<"$7", "0">>, <<"_ypack_ver_try_next_lang">>),
       Ins("System::Call", <<"*$5(&t${NSIS_MAX_STRLEN} .r9)">>, <<>>),
       Ins("Goto", <<>>, <<"_ypack_ver_ok">>),
       LabelLine("_ypack_ver_try_next_lang"),
       InsertMacro("_YPACK_DebugLog", "[YPACK] VerInfo: Query failed; trying next langcp..."),
       Ins("StrCmp", <<"$1", "040904B0">>, <<"0", "+3">>),
       Ins("StrCpy", <<"$1", "080404B0">>, <<>>),
       Ins("Goto", <<>>, <<"_ypack_ver_query">>),
       Ins("StrCmp", <<"$1", "080404B0">>, <<"0", "+3">>),
       Ins("StrCpy", <<"$1", "000004B0">>, <<>>),
       Ins("Goto", <<>>, <<"_ypack_ver_query">>),
       Ins("Goto", <<>>, <<"_ypack_ver_free">>),
       LabelLine("_ypack_ver_ok"),
       Ins("StrCpy", <<"$9", "$9">>, <<>>),
       LabelLine("_ypack_ver_free"),
       Ins("StrCmp", <<"$3", "0">>, <<"_ypack_ver_done">>),
       Ins("System::Free", <<"$3">>, <<>>),
       LabelLine("_ypack_ver_done"),
       Ins("Pop", <<"$8">>, <<>>), Ins("Pop", <<"$7">>, <<>>), Ins("Pop", <<"$6">>, <<>>),
       Ins("Pop", <<"$5">>, <<>>), Ins("Pop", <<"$4">>, <<>>), Ins("Pop", <<"$3">>, <<>>),
       Ins("Pop", <<"$2">>, <<>>), Ins("Pop", <<"$1">>, <<>>),
       Ins("Exch", <<"$9">>, <<>>),
       Ins("FunctionEnd", <<>>, <<>>) >>

\* generate_existing_install_helpers, "if needs_version or ei.allow_multiple":
\* the macro _YPACK_DebugLog, a stub when logging is off
_YPACK_DebugLog(c) ==
    IF c.logging
    THEN << Ins("!macro", <<"_YPACK_DebugLog", "_msg">>, <<>>),
            Ins("Push", <<"$R7">>, <<>>),
            Ins("Push", <<"$R8">>, <<>>),
            Ins("StrCpy", <<"$R7", "${_msg}">>, <<>>),
            Ins("FileOpen", <<"$R8", "$TEMP\\ypack-debug.log", "a">>, <<>>),
            Ins("IntCmp", <<"$R8", "0">>, <<"+4">>),
            Ins("FileSeek", <<"$R8", "0", "END">>, <<>>),
            Ins("FileWrite", <<"$R8", "$R7$\\r$\\n">>, <<>>),
            Ins("FileClose", <<"$R8">>, <<>>),
            Ins("Pop", <<"$R8">>, <<>>),
            Ins("Pop", <<"$R7">>, <<>>),
            Ins("!macroend", <<>>, <<>>) >>
    ELSE << Ins("!macro", <<"_YPACK_DebugLog", "_msg">>, <<>>),
            Ins("!macroend", <<>>, <<>>) >>

\* generate_existing_install_helpers, "Function ExistingInstall_DirLeave": the check
\* of the directory the user selected.  (The second "elif ei.mode == 'auto_uninstall'"
\* and "elif ei.mode == 'abort'" of the source can never be taken.)
ExistingInstall_DirLeave(c) ==
    LET ei == c.install.existing_install
        DebugLog(message) ==
            If(c.logging, << InsertMacro("_YPACK_DebugLog", "[YPACK] ExistingInstall_DirLeave: " \o message) >>)
        prompt_text == Localized(c, "UNINSTALL_NOT_FINISHED",
            "The previous uninstaller did not finish.  Retry or cancel installation?")
        prompt_ver == Localized(c, "EXISTING_INSTALL_PROMPT",
            "An existing installation (version $R2) was found at:$\\r$\\n$R1$\\r$\\n$\\r$\\nUninstall it first and continue?")
        prompt_no_ver == Localized(c, "EXISTING_INSTALL_PROMPT_NO_VER",
            "An existing installation was found at:$\\r$\\n$R1$\\r$\\n$\\r$\\nUninstall it first and continue?")
        abort_ver == Localized(c, "EXISTING_INSTALL_ABORT",
            "An existing installation (version $R2) was found at $R1. Installation aborted.")
        abort_no_ver == Localized(c, "EXISTING_INSTALL_ABORT_NO_VER",
            "An existing installation was found at $R1. Installation aborted.")
        uninst_args == IF ei.uninstaller_args = "" THEN "/S" ELSE ei.uninstaller_args
        wait_ms == ei.uninstall_wait_ms
        version ==
            If(ei.version_check \/ ei.show_version_info,
               << Ins("StrCpy", <<"$R6", "ProductVersion">>, <<>>) >>
               \o DebugLog("entering ProductVersion branch (target=$R1\\Uninstall.exe)")
               \o << Ins("Push", <<"$R1\\Uninstall.exe">>, <<>>),
                     Ins("Call", <<"_YPACK_GetFileProductVersion">>, <<>>),
                     Ins("Pop", <<"$R2">>, <<>>) >>
               \o DebugLog("ProductVersion raw result=$R2")
               \o << Ins("StrCmp", <<"$R2", "">>, <<"0", "_eid_ver_done">>) >>
               \o DebugLog("ProductVersion empty -> fallback GetDLLVersion")
               \o << Ins("StrCpy", <<"$R6", "FileVersionFixed">>, <<>>),
                     Ins("GetDLLVersion", <<"$R1\\Uninstall.exe", "$0", "$1">>, <<>>),
                     Ins("StrCmp", <<"$0", "0">>, <<"+2", "0">>),
                     Ins("Goto", <<>>, <<"+3">>),
                     Ins("StrCmp", <<"$1", "0">>, <<"+2", "0">>),
                     Ins("Goto", <<>>, <<"+1">>),
                     Ins("StrCpy", <<"$R2", "">>, <<>>),
                     Ins("IntOp", <<"$2", "$0", ">>", "16">>, <<>>),
                     Ins("IntOp", <<"$3", "$0", "&", "0xFFFF">>, <<>>),
                     Ins("IntOp", <<"$4", "$1", ">>", "16">>, <<>>),
                     Ins("IntOp", <<"$5", "$1", "&", "0xFFFF">>, <<>>),
                     Ins("StrCpy", <<"$R2", "$2.$3.$4.$5">>, <<>>),
                     Ins("StrCmp", <<"$R2", "0.0.0.0">>, <<"0", "+2">>),
                     Ins("StrCpy", <<"$R2", "">>, <<>>),
                     LabelLine("_eid_ver_done") >>
               \o DebugLog("resolved version=$R2 source=$R6 (path=$R1)"))
            \o If(ei.version_check,
                  << Ins("StrCmp", <<"$R2", "${APP_VERSION}">>, <<"_eid_done", "0">>),
                     Ins("StrCmp", <<"$R2", "${APP_VERSION_VI}">>, <<"_eid_done">>) >>)
        decision ==
            CASE ei.mode = "prompt_uninstall" ->
                   IF ei.show_version_info
                   THEN << Ins("StrCmp", <<"$R2", "">>, <<"_eid_prompt_no_ver", "0">>),
                           Ins("MessageBox", <<"MB_YESNO|MB_ICONQUESTION", prompt_ver, "IDYES", "IDNO">>,
                               <<"_eid_do_uninstall", "_eid_cancel">>),
                           Ins("Goto", <<>>, <<"_eid_prompt_done">>),
                           LabelLine("_eid_prompt_no_ver"),
                           Ins("MessageBox", <<"MB_YESNO|MB_ICONQUESTION", prompt_no_ver, "IDYES", "IDNO">>,
                               <<"_eid_do_uninstall", "_eid_cancel">>),
                           LabelLine("_eid_prompt_done") >>
                   ELSE << Ins("MessageBox", <<"MB_YESNO|MB_ICONQUESTION", prompt_no_ver, "IDYES", "IDNO">>,
                               <<"_eid_do_uninstall", "_eid_cancel">>) >>
              [] ei.mode = "auto_uninstall" ->
                   << Ins("Goto", <<>>, <<"_eid_do_uninstall">>) >>
              [] ei.mode = "abort" ->
                   IF ei.show_version_info
                   THEN << Ins("StrCmp", <<"$R2", "">>, <<"_eid_abort_no_ver", "0">>),
                           Ins("MessageBox", <<"MB_OK|MB_ICONSTOP", abort_ver>>, <<>>),
                           Ins("Goto", <<>>, <<"_eid_cancel">>),
                           LabelLine("_eid_abort_no_ver"),
                           Ins("MessageBox", <<"MB_OK|MB_ICONSTOP", abort_no_ver>>, <<>>),
                           Ins("Goto", <<>>, <<"_eid_cancel">>) >>
                   ELSE << Ins("MessageBox", <<"MB_OK|MB_ICONSTOP", abort_no_ver>>, <<>>),
                           Ins("Goto", <<>>, <<"_eid_cancel">>) >>
              [] ei.mode = "overwrite" ->
                   << Ins("Goto", <<>>, <<"_eid_done">>) >>
              [] OTHER -> <<>>
        uninstall ==
            << LabelLine("_eid_do_uninstall") >>
            \o If(c.logging,
                  << InsertMacro("LogWrite", "Running existing uninstaller: $R1\\Uninstall.exe " \o uninst_args),
                     InsertMacro("LogWrite",
                         IF NoTimeout(wait_ms) THEN "Waiting for uninstaller to finish (no timeout)"
                         ELSE "Waiting for uninstaller to finish (up to " \o ToString(wait_ms) \o "ms)") >>)
            \o << Ins("ExecWait", <<"$R1\\Uninstall.exe " \o uninst_args, "$R4">>, <<>>),
                  Ins("StrCmp", <<"$R4", "0">>, <<"_eid_done">>) >>
            \o If(c.logging /\ ~NoTimeout(wait_ms),
                  << InsertMacro("LogWrite", "Uninstaller returned a non-zero exit code.") >>)
            \o << Ins("MessageBox",
                      <<"MB_RETRYCANCEL|MB_ICONEXCLAMATION", prompt_text, "IDRETRY", "IDCANCEL">>,
                      <<"_eid_do_uninstall", "_eid_cancel">>) >>
    IN << Ins("Function", <<"ExistingInstall_DirLeave">>, <<>>) >>
       \o DebugLog("ENTRY user-selected INSTDIR=$INSTDIR")
       \o << Ins("SetRegView", <<c.effective_reg_view>>, <<>>),
             Ins("StrCpy", <<"$R1", "$INSTDIR">>, <<>>) >>
       \o DebugLog("checking path=$R1")
       \o << Ins("IfFileExists", <<"$R1\\Uninstall.exe">>, <<"_eid_has_uninst", "_eid_check_reg">>) >>
       \o DebugLog("no Uninstall.exe found at selected path, checking registry...")
       \o << Ins("Goto", <<>>, <<"_eid_done">>),
             LabelLine("_eid_check_reg") >>
       \o DebugLog("Uninstall.exe found; checking registry match...")
       \o << Ins("ReadRegStr", <<"$R0", "HKLM", "${REG_KEY}", "InstallPath">>, <<>>) >>
       \o DebugLog("registry InstallPath=$R0")
       \o << Ins("StrCmp", <<"$R0", "$R1">>, <<"0", "_eid_done">>),
             Ins("IfFileExists", <<"$R1\\Uninstall.exe">>, <<"_eid_has_uninst", "_eid_done">>),
             LabelLine("_eid_has_uninst") >>
       \o version
       \o decision
       \o uninstall
       \o << LabelLine("_eid_cancel"),
             Ins("Abort", <<>>, <<>>),
             LabelLine("_eid_done") >>
       \o DebugLog("EXIT (no conflict or after uninstall)")
       \o << Ins("SetRegView", <<"lastused">>, <<>>),
             Ins("FunctionEnd", <<>>, <<>>) >>

\* generate_existing_install_helpers
generate_existing_install_helpers(c) ==
    LET ei == c.install.existing_install
        needs_version == ei.version_check \/ ei.show_version_info
    IN IF ei.mode = "none" THEN <<>>
       ELSE If(needs_version \/ ei.allow_multiple, _YPACK_DebugLog(c))
            \o If(needs_version, _YPACK_GetFileProductVersion)
            \o If(ei.allow_multiple, ExistingInstall_DirLeave(c))

-----------------------------------------------------------------------------
(* converters/nsis_sections.py.  Texts are whole strings: str.upper,        *)
(* str.lower and the test of a path's first characters are given for the    *)
(* strings the configurations hold, which contain no '"' and no '/'.        *)
(* c.resolve is the resolution the build context's resolver gives to each   *)
(* of these strings.                                                        *)

\* str.upper() of an environment variable's name
upper(s) == IF s \in {"PATH", "Path", "path"} THEN "PATH" ELSE s

\* str.strip().lower() of a shortcut location or a scope
lower(s) ==
    CASE s \in {"Desktop", "desktop"} -> "desktop"
      [] s \in {"StartMenu", "startmenu"} -> "startmenu"
      [] s \in {"QuickLaunch", "quicklaunch"} -> "quicklaunch"
      [] s \in {"System", "system"} -> "system"
      [] s \in {"User", "user"} -> "user"
      [] OTHER -> s

\* _resolve_shortcut_path: "resolved.startswith('$') or re.match(r'^[A-Za-z]:\\', resolved)"
IsRooted(resolved) == resolved \in {"$INSTDIR\\app.exe", "$INSTDIR\\links", "C:\\Tools\\tool.exe"}

_resolve_shortcut_path(c, path) ==
    IF path = "" THEN ""
    ELSE LET resolved == c.resolve[path]
         IN IF IsRooted(resolved) THEN resolved ELSE "$INSTDIR\\" \o resolved

_shortcut_kind(location) ==
    LET loc == lower(IF location = "" THEN "Desktop" ELSE location)
    IN CASE loc \in {"desktop", "desk"} -> "desktop"
         [] loc \in {"startmenu", "start_menu", "start menu"} -> "startmenu"
         [] loc \in {"quicklaunch", "quick_launch", "quick launch"} -> "quicklaunch"
         [] OTHER -> "custom"

_shortcut_base_dir(c, sc) ==
    CASE sc.sc_type = "desktop" -> "$DESKTOP"
      [] sc.sc_type = "startmenu" -> "$SMPROGRAMS\\${APP_NAME}"
      [] sc.sc_type = "quicklaunch" -> "$QUICKLAUNCH"
      [] OTHER -> _resolve_shortcut_path(c, sc.config.location)

\* no base directory ends with a backslash: rstrip("\\") leaves it as it is
_shortcut_link_path(c, sc) == _shortcut_base_dir(c, sc) \o "\\" \o sc.resolved_name \o ".lnk"

_env_hive_key(env) ==
    LET scope == lower(IF env.scope = "" THEN "system" ELSE env.scope)
    IN IF scope = "system"
       THEN <<"HKLM", "SYSTEM\\CurrentControlSet\\Control\\Session Manager\\Environment">>
       ELSE <<"HKCU", "Environment">>

\* a list of the top-level components only
_top_level_packages(packages) == packages

RECURSIVE _flatten_packages(_)
_flatten_packages(packages) ==
    IF packages = <<>> THEN <<>>
    ELSE LET pkg == Head(packages)
         IN (IF pkg.children # <<>> THEN _flatten_packages(pkg.children) ELSE <<pkg>>)
            \o _flatten_packages(Tail(packages))

\* _emit_env_var_writes: the lines appended for install.env_vars
_emit_env_var_writes(c) ==
    LET Write(env) ==
            LET env_value == c.resolve[env.value]
                hive == _env_hive_key(env)[1]
                key == _env_hive_key(env)[2]
            IN IF env.append /\ upper(env.name) = "PATH"
               THEN << Ins("ReadRegStr", <<"$0", hive, key, env.name>>, <<>>),
                       Ins("StrCpy", <<"$1", env_value>>, <<>>),
                       Ins("Push", <<"$0">>, <<>>),
                       Ins("Push", <<"$1">>, <<>>),
                       Ins("Call", <<"_StrContains">>, <<>>),
                       Ins("StrCmp", <<"$R9", "1">>, <<"_skip_path_append">>),
                       Ins("StrCmp", <<"$0", "">>, <<"0", "+2">>),
                       Ins("StrCpy", <<"$0", env_value>>, <<>>),
                       Ins("Goto", <<>>, <<"+2">>),
                       Ins("StrCpy", <<"$0", "$0;" \o env_value>>, <<>>),
                       Ins("WriteRegExpandStr", <<hive, key, env.name, "$0">>, <<>>),
                       Ins("SendMessage", <<"${HWND_BROADCAST}", "${WM_SETTINGCHANGE}", "0",
                                            "STR:Environment", "/TIMEOUT=500">>, <<>>),
                       LabelLine("_skip_path_append") >>
               ELSE << Ins("WriteRegStr", <<hive, key, env.name, env_value>>, <<>>) >>
        envs == c.install.env_vars
    IN Flatten([i \in 1..Len(envs) |-> Write(envs[i])])

\* _emit_env_var_writes_for: the lines appended for a component's env_vars
_emit_env_var_writes_for(c, env_vars) ==
    LET Write(env) ==
            LET env_value == c.resolve[env.value]
                hive == _env_hive_key(env)[1]
                key == _env_hive_key(env)[2]
            IN IF env.append /\ upper(env.name) = "PATH"
               THEN << Ins("ReadRegStr", <<"$0", hive, key, env.name>>, <<>>),
                       Ins("StrCpy", <<"$1", env_value>>, <<>>),
                       Ins("Push", <<"$0">>, <<>>),
                       Ins("Push", <<"$1">>, <<>>),
                       Ins("Call", <<"_StrContains">>, <<>>),
                       Ins("StrCmp", <<"$R9", "1">>, <<"_skip_path_append">>),
                       Ins("StrCmp", <<"$0", "">>, <<"0", "+2">>),
                       Ins("StrCpy", <<"$0", env_value>>, <<>>),
                       Ins("Goto", <<>>, <<"+2">>),
                       Ins("StrCpy", <<"$0", "$0;" \o env_value>>, <<>>),
                       Ins("WriteRegExpandStr", <<hive, key, env.name, "$0">>, <<>>),
                       Ins("SendMessage", <<"${HWND_BROADCAST}", "${WM_SETTINGCHANGE}", "0",
                                            "STR:Environment", "/TIMEOUT=500">>, <<>>),
                       LabelLine("_skip_path_append") >>
               ELSE << Ins("WriteRegStr", <<hive, key, env.name, env_value>>, <<>>) >>
    IN Flatten([i \in 1..Len(env_vars) |-> Write(env_vars[i])])

\* collect_all_shortcuts: the entries returned
collect_all_shortcuts(c) ==
    LET Legacy(shortcut, location, section) ==
            If(shortcut.some /\ shortcut.v.target # "",
               << [config |-> [shortcut.v EXCEPT !.location = location], section |-> section] >>)
        Listed(shortcuts, section) ==
            [i \in 1..Len(shortcuts) |-> [config |-> shortcuts[i], section |-> section]]
        flat == _flatten_packages(c.packages)
        OfPackage(pkg_idx) ==
            LET pkg == flat[pkg_idx + 1]
                sec_name == "SEC_PKG_" \o ToString(pkg_idx)
            IN Legacy(pkg.desktop_shortcut, "Desktop", sec_name)
               \o Legacy(pkg.start_menu_shortcut, "StartMenu", sec_name)
               \o Listed(pkg.shortcuts, sec_name)
        offered == Legacy(c.install.desktop_shortcut, "Desktop", "global")
                   \o Legacy(c.install.start_menu_shortcut, "StartMenu", "global")
                   \o Listed(c.install.shortcuts, "global")
                   \o Flatten([k \in 1..Len(flat) |-> OfPackage(k - 1)])
        \* _append: "if not sc_cfg or not sc_cfg.target: return"
        appended == SelectSeq(offered, LAMBDA e : e.config.target # "")
    IN [i \in 1..Len(appended) |->
           [idx |-> i - 1,
            sc_type |-> _shortcut_kind(appended[i].config.location),
            config |-> appended[i].config,
            section |-> appended[i].section,
            resolved_name |-> IF appended[i].config.name # ""
                              THEN c.resolve[appended[i].config.name] ELSE "${APP_NAME}"]]

RECURSIVE SetPackageLocations(_)
\* collect_all_shortcuts, "pkg.desktop_shortcut.location = 'Desktop'" and
\* "pkg.start_menu_shortcut.location = 'StartMenu'" for the packages of _flatten_packages
SetPackageLocations(packages) ==
    LET Located(shortcut, location) ==
            IF shortcut.some /\ shortcut.v.target # ""
            THEN Some([shortcut.v EXCEPT !.location = location]) ELSE shortcut
    IN [i \in 1..Len(packages) |->
           IF packages[i].children # <<>>
           THEN [packages[i] EXCEPT !.children = SetPackageLocations(@)]
           ELSE [packages[i] EXCEPT !.desktop_shortcut = Located(@, "Desktop"),
                                    !.start_menu_shortcut = Located(@, "StartMenu")]]

\* collect_all_shortcuts: the configuration the call leaves behind
SetLocations(c) ==
    LET Located(shortcut, location) ==
            IF shortcut.some /\ shortcut.v.target # ""
            THEN Some([shortcut.v EXCEPT !.location = location]) ELSE shortcut
    IN [c EXCEPT !.install.desktop_shortcut = Located(@, "Desktop"),
                 !.install.start_menu_shortcut = Located(@, "StartMenu"),
                 !.packages = SetPackageLocations(@)]

\* _emit_single_shortcut: the lines appended for one entry
_emit_single_shortcut(c, sc, add_uninstaller_link) ==
    LET i == ToString(sc.idx)
        target == _resolve_shortcut_path(c, sc.config.target)
        link_path == _shortcut_link_path(c, sc)
        base_dir == _shortcut_base_dir(c, sc)
        args == IF sc.config.args # "" THEN c.resolve[sc.config.args] ELSE ""
        icon == IF sc.config.icon # "" THEN _resolve_shortcut_path(c, sc.config.icon) ELSE ""
        create_line ==
            IF args # "" \/ icon # ""
            THEN IF icon # "" THEN Ins("CreateShortCut", <<link_path, target, args, icon, "0">>, <<>>)
                 ELSE Ins("CreateShortCut", <<link_path, target, args>>, <<>>)
            ELSE Ins("CreateShortCut", <<link_path, target>>, <<>>)
    IN If(sc.config.optional,
          << Ins("StrCmp", <<"$CREATE_SC_" \o i, "1">>, <<"SC_Create_" \o i>>),
             Ins("Goto", <<>>, <<"SC_Skip_" \o i>>),
             LabelLine("SC_Create_" \o i) >>)
       \o If(base_dir \notin {"$DESKTOP", "$QUICKLAUNCH"},
             << Ins("CreateDirectory", <<base_dir>>, <<>>) >>)
       \o << create_line >>
       \o If(add_uninstaller_link /\ sc.sc_type = "startmenu",
             << Ins("CreateShortCut", <<base_dir \o "\\Uninstall.lnk", "$INSTDIR\\Uninstall.exe">>, <<>>) >>)
       \o If(sc.config.optional, << LabelLine("SC_Skip_" \o i) >>)

\* _emit_shortcuts: the global shortcuts
_emit_shortcuts(c) ==
    LET all_sc == collect_all_shortcuts(c)
    IN Flatten([k \in 1..Len(all_sc) |->
           If(all_sc[k].section = "global",
              _emit_single_shortcut(c, all_sc[k], all_sc[k].sc_type = "startmenu"))])

\* _emit_shortcuts_for: the shortcuts of one component section
_emit_shortcuts_for(c, section_id) ==
    LET all_sc == collect_all_shortcuts(c)
    IN Flatten([k \in 1..Len(all_sc) |->
           If(all_sc[k].section = section_id, _emit_single_shortcut(c, all_sc[k], FALSE))])

\* generate_installer_section: Section "-Install"
generate_installer_section(c) ==
    LET arp == "Software\\Microsoft\\Windows\\CurrentVersion\\Uninstall\\${APP_NAME}"
        reg_view == c.effective_reg_view
    IN << Ins("Section", <<"-Install", "SEC_INSTALL">>, <<>>) >>
       \o If(c.logging,
             << InsertMacro("LogInit", "Install"),
                InsertMacro("LogWrite", "Install directory: $INSTDIR"),
                InsertMacro("LogWrite", "Copying files ...") >>)
       \o << Ins("SetOutPath", <<"$INSTDIR">>, <<>>),
             Ins("WriteUninstaller", <<"$INSTDIR\\Uninstall.exe">>, <<>>) >>
       \o If(c.logging, << InsertMacro("LogWrite", "Uninstaller created.") >>)
       \o << Ins("SetRegView", <<reg_view>>, <<>>),
             Ins("WriteRegStr", <<"HKLM", "${REG_KEY}", "InstallPath", "$INSTDIR">>, <<>>),
             Ins("WriteRegStr", <<"HKLM", "${REG_KEY}", "Version", "${APP_VERSION}">>, <<>>),
             Ins("WriteRegStr", <<"HKLM", arp, "DisplayName", "${APP_NAME}">>, <<>>),
             Ins("WriteRegStr", <<"HKLM", arp, "DisplayVersion", "${APP_VERSION}">>, <<>>),
             Ins("WriteRegStr", <<"HKLM", arp, "Publisher", "${APP_PUBLISHER}">>, <<>>),
             Ins("WriteRegStr", <<"HKLM", arp, "UninstallString", "$\\\"$INSTDIR\\Uninstall.exe$\\\"">>, <<>>),
             Ins("WriteRegStr", <<"HKLM", arp, "QuietUninstallString",
                                  "$\\\"$INSTDIR\\Uninstall.exe$\\\" /S">>, <<>>),
             Ins("WriteRegStr", <<"HKLM", arp, "InstallLocation", "$INSTDIR">>, <<>>),
             Ins("WriteRegDWORD", <<"HKLM", arp, "NoModify", "1">>, <<>>),
             Ins("WriteRegDWORD", <<"HKLM", arp, "NoRepair", "1">>, <<>>),
             Ins("WriteRegStr", <<"HKLM", arp, "DisplayIcon", "$INSTDIR\\Uninstall.exe,0">>, <<>>),
             Ins("SetRegView", <<"lastused">>, <<>>) >>
       \o If(c.logging, << InsertMacro("LogWrite", "Registry entries written.") >>)
       \o _emit_env_var_writes(c)
       \o _emit_shortcuts(c)
       \o If(c.logging /\ collect_all_shortcuts(c) # <<>>,
             << InsertMacro("LogWrite", "Shortcuts created.") >>)
       \o << Ins("${GetSize}", <<"$INSTDIR", "/S=0K", "$0", "$1", "$2">>, <<>>),
             Ins("IntFmt", <<"$0", "0x%08X", "$0">>, <<>>),
             Ins("SetRegView", <<reg_view>>, <<>>),
             Ins("WriteRegDWORD", <<"HKLM", arp, "EstimatedSize", "$0">>, <<>>),
             Ins("SetRegView", <<"lastused">>, <<>>),
             Ins("SectionEnd", <<>>, <<>>) >>

\* no removal code at all (mutation)
_emit_no_removes(c) == <<>>

\* _emit_shortcut_removes: a Delete for every entry; the 'Uninstall.lnk' and the
\* directory of the global start-menu entries (the sets remove_uninstall and
\* remove_dirs hold the one start-menu directory, or nothing)
_emit_shortcut_removes(c) ==
    LET all_sc == collect_all_shortcuts(c)
        remove_dirs == {_shortcut_base_dir(c, all_sc[k]) :
                           k \in {j \in 1..Len(all_sc) : all_sc[j].sc_type = "startmenu"
                                                         /\ all_sc[j].section = "global"}}
    IN [k \in 1..Len(all_sc) |-> Ins("Delete", <<_shortcut_link_path(c, all_sc[k])>>, <<>>)]
       \o If(remove_dirs # {},
             << Ins("Delete", <<(CHOOSE d \in remove_dirs : TRUE) \o "\\Uninstall.lnk">>, <<>>),
                Ins("RMDir", <<CHOOSE d \in remove_dirs : TRUE>>, <<>>) >>)

\* the lines that remove one environment variable
EnvVarRemove(c, env) ==
    LET hive == _env_hive_key(env)[1]
        key == _env_hive_key(env)[2]
    IN IF ~env.remove_on_uninstall THEN <<>>
       ELSE IF env.append /\ upper(env.name) = "PATH"
       THEN << Ins("ReadRegStr", <<"$0", hive, key, env.name>>, <<>>),
               Ins("StrCpy", <<"$1", c.resolve[env.value]>>, <<>>),
               Ins("Call", <<"un._RemovePathEntry">>, <<>>),
               Ins("WriteRegExpandStr", <<hive, key, env.name, "$0">>, <<>>),
               Ins("SendMessage", <<"${HWND_BROADCAST}", "${WM_SETTINGCHANGE}", "0",
                                    "STR:Environment", "/TIMEOUT=500">>, <<>>) >>
       ELSE << Ins("DeleteRegValue", <<hive, key, env.name>>, <<>>) >>

\* _emit_env_var_removes: the lines appended for install.env_vars
_emit_env_var_removes(c) ==
    Flatten([i \in 1..Len(c.install.env_vars) |-> EnvVarRemove(c, c.install.env_vars[i])])

\* _emit_per_package_uninstall: the components have environment variables and
\* shortcuts only; the shortcuts are removed by _emit_shortcut_removes
_emit_per_package_uninstall(c) ==
    LET flat == _flatten_packages(c.packages)
    IN Flatten([k \in 1..Len(flat) |->
                  Flatten([i \in 1..Len(flat[k].env_vars) |-> EnvVarRemove(c, flat[k].env_vars[i])])])

\* generate_uninstaller_section: Section "Uninstall" of a configuration without
\* files, registry entries and file associations
generate_uninstaller_section(c) ==
    LET arp == "Software\\Microsoft\\Windows\\CurrentVersion\\Uninstall\\${APP_NAME}"
    IN << Ins("Section", <<"Uninstall">>, <<>>) >>
       \o If(c.logging,
             << InsertMacro("LogInit", "Uninstall"),
                InsertMacro("LogWrite", "Removing installed files ...") >>)
       \o << Ins("Delete", <<"$INSTDIR\\Uninstall.exe">>, <<>>),
             Ins("RMDir", <<"$INSTDIR">>, <<>>) >>
       \o _emit_shortcut_removes(c)
       \o If(c.logging /\ collect_all_shortcuts(c) # <<>>,
             << InsertMacro("LogWrite", "Shortcuts removed.") >>)
       \o If(c.logging, << InsertMacro("LogWrite", "Removing registry entries ...") >>)
       \o << Ins("SetRegView", <<c.effective_reg_view>>, <<>>),
             Ins("DeleteRegKey", <<"HKLM", "${REG_KEY}">>, <<>>),
             Ins("DeleteRegKey", <<"HKLM", arp>>, <<>>),
             Ins("SetRegView", <<"lastused">>, <<>>) >>
       \o _emit_env_var_removes(c)
       \o If(c.packages # <<>>, _emit_per_package_uninstall(c))
       \o If(c.logging,
             << InsertMacro("LogWrite", "Uninstallation completed."),
                Ins("!insertmacro", <<"LogClose">>, <<>>) >>)
       \o << Ins("SectionEnd", <<>>, <<>>) >>

-----------------------------------------------------------------------------
(* converters/nsis_packages.py: the component sections.  A component is a   *)
(* record; its description is the text of its LangText ("" when empty, no    *)
(* per-language values); it has no sources, post-install commands, registry *)
(* entries or file associations.                                            *)

RECURSIVE _emit(_, _, _, _)
\* generate_package_sections._emit(pkg_list): the lines appended, with the counters
\* idx_ref[0] and group_idx_ref[0] before the call and after it
_emit(c, pkg_list, idx_ref, group_idx_ref) ==
    IF pkg_list = <<>> THEN [lines |-> <<>>, idx_ref |-> idx_ref, group_idx_ref |-> group_idx_ref]
    ELSE LET pkg == Head(pkg_list)
             described == pkg.description # ""
             inner == _emit(c, pkg.children, idx_ref,
                            IF described THEN group_idx_ref + 1 ELSE group_idx_ref)
             sec_name == "SEC_PKG_" \o ToString(idx_ref)
             first ==
                 IF pkg.children # <<>>
                 THEN [inner EXCEPT !.lines =
                          << IF described
                             THEN Ins("SectionGroup",
                                      <<"/e", pkg.name, "SEC_GROUP_" \o ToString(group_idx_ref)>>, <<>>)
                             ELSE Ins("SectionGroup", <<pkg.name>>, <<>>) >>
                          \o @
                          \o << Ins("SectionGroupEnd", <<>>, <<>>) >>]
                 ELSE [lines |->
                          << Ins("Section", <<pkg.name, sec_name>>, <<>>) >>
                          \o If(c.logging,
                                << InsertMacro("LogWrite", "Installing component: " \o pkg.name) >>)
                          \o If(pkg.env_vars # <<>>, _emit_env_var_writes_for(c, pkg.env_vars))
                          \o If(pkg.desktop_shortcut.some \/ pkg.start_menu_shortcut.some
                                    \/ pkg.shortcuts # <<>>,
                                _emit_shortcuts_for(c, sec_name))
                          \o If(c.logging,
                                << InsertMacro("LogWrite", "Component " \o pkg.name \o " done.") >>)
                          \o << Ins("SectionEnd", <<>>, <<>>) >>,
                       idx_ref |-> idx_ref + 1,
                       group_idx_ref |-> group_idx_ref]
             rest == _emit(c, Tail(pkg_list), first.idx_ref, first.group_idx_ref)
         IN [rest EXCEPT !.lines = first.lines \o @]

\* no component sections are emitted (mutation)
generate_no_package_sections(c) == <<>>

generate_package_sections(c) ==
    IF c.packages = <<>> THEN <<>> ELSE _emit(c, c.packages, 0, 0).lines

RECURSIVE _collect(_, _, _)
\* _collect_all_packages_with_ids._collect(pkg_list): the tuples appended to result,
\* with the counters pkg_idx[0] and group_idx[0] before the call and after it
_collect(pkg_list, pkg_idx, group_idx) ==
    IF pkg_list = <<>> THEN [result |-> <<>>, pkg_idx |-> pkg_idx, group_idx |-> group_idx]
    ELSE LET pkg == Head(pkg_list)
             described == pkg.description # ""
             inner == _collect(pkg.children, pkg_idx, IF described THEN group_idx + 1 ELSE group_idx)
             first ==
                 IF pkg.children # <<>>
                 THEN [inner EXCEPT !.result =
                          If(described,
                             << <<pkg, "SEC_GROUP_" \o ToString(group_idx), TRUE>> >>) \o @]
                 ELSE [result |-> << <<pkg, "SEC_PKG_" \o ToString(pkg_idx), FALSE>> >>,
                       pkg_idx |-> pkg_idx + 1,
                       group_idx |-> group_idx]
             rest == _collect(Tail(pkg_list), first.pkg_idx, first.group_idx)
         IN [rest EXCEPT !.result = first.result \o @]

_collect_all_packages_with_ids(packages) == _collect(packages, 0, 0).result

\* get_nsis_mapping(lang_cfg.name).lang_constant, of converters/nsis_languages.py
lang_constant(name) ==
    CASE name = "English" -> "LANG_ENGLISH"
      [] name = "SimplifiedChinese" -> "LANG_SIMPCHINESE"

\* generate_package_descriptions: the LangString of every described component and
\* the binding of each to its section or group
generate_package_descriptions(c) ==
    LET all_pkgs == _collect_all_packages_with_ids(c.packages)
        described == SelectSeq(all_pkgs, LAMBDA t : t[1].description # "")
        desc_var(k) == "DESC_" \o ToString(k - 1)
        LangStrings(k) ==
            IF c.languages # <<>>
            THEN [l \in 1..Len(c.languages) |->
                     Ins("LangString", <<desc_var(k), "${" \o lang_constant(c.languages[l]) \o "}",
                                         c.resolve[described[k][1].description]>>, <<>>)]
            ELSE << Ins("LangString", <<desc_var(k), "${LANG_ENGLISH}",
                                        c.resolve[described[k][1].description]>>, <<>>) >>
    IN IF c.packages = <<>> \/ described = <<>> THEN <<>>
       ELSE Flatten([k \in 1..Len(described) |-> LangStrings(k)])
            \o << Ins("!insertmacro", <<"MUI_FUNCTION_DESCRIPTION_BEGIN">>, <<>>) >>
            \o [k \in 1..Len(described) |->
                   Ins("!insertmacro", <<"MUI_DESCRIPTION_TEXT", "${" \o described[k][2] \o "}",
                                         "$(" \o desc_var(k) \o ")">>, <<>>)]
            \o << Ins("!insertmacro", <<"MUI_FUNCTION_DESCRIPTION_END">>, <<>>) >>

\* generate_oninstsuccess: Function .onInstSuccess, emitted when logging is enabled
generate_oninstsuccess(c) ==
    LET flat == _flatten_packages(c.packages)
        Skip(idx) ==
            LET n == ToString(idx)
            IN If(flat[idx + 1].optional,
                  << Ins("SectionGetFlags", <<"${SEC_PKG_" \o n \o "}", "$0">>, <<>>),
                     Ins("IntOp", <<"$0", "$0", "&", "${SF_SELECTED}">>, <<>>),
                     Ins("StrCmp", <<"$0", "0">>,
                         <<"_pkg_" \o n \o "_skipped", "_pkg_" \o n \o "_installed">>),
                     LabelLine("_pkg_" \o n \o "_skipped"),
                     InsertMacro("LogWrite", "Skipping component: " \o flat[idx + 1].name),
                     Ins("Goto", <<>>, <<"_pkg_" \o n \o "_done">>),
                     LabelLine("_pkg_" \o n \o "_installed"),
                     LabelLine("_pkg_" \o n \o "_done") >>)
    IN IF ~c.logging THEN <<>>
       ELSE << Ins("Function", <<".onInstSuccess">>, <<>>) >>
            \o Flatten([k \in 1..Len(flat) |-> Skip(k - 1)])
            \o << InsertMacro("LogWrite", "Installation completed successfully."),
                  Ins("!insertmacro", <<"LogClose">>, <<>>),
                  Ins("FunctionEnd", <<>>, <<>>) >>

\* generate_oninit: Function .onInit
generate_oninit(c) ==
    LET all_sc == collect_all_shortcuts(c)
        flat == _flatten_packages(c.packages)
        state(sc) == IF ~sc.config.optional THEN "1"
                     ELSE IF sc.config.default THEN "1" ELSE "0"
        Flags(idx) ==
            LET pkg == flat[idx + 1]
                sec == "${SEC_PKG_" \o ToString(idx) \o "}"
            IN IF pkg.optional /\ ~pkg.default THEN << Ins("SectionSetFlags", <<sec, "0">>, <<>>) >>
               ELSE IF ~pkg.optional THEN << Ins("SectionSetFlags", <<sec, "17">>, <<>>) >>
               ELSE <<>>
    IN << Ins("Function", <<".onInit">>, <<>>),
          Ins("System::Call",
              <<"kernel32::CreateMutex(p 0, i 0, t \"${APP_NAME}_InstallerMutex\") p .r1 ?e">>, <<>>),
          Ins("Pop", <<"$R0">>, <<>>),
          Ins("StrCmp", <<"$R0", "0">>, <<"+3", "0">>),
          Ins("MessageBox", <<"MB_OK|MB_ICONEXCLAMATION",
                              Localized(c, "INSTALLER_RUNNING", "The installer is already running.")>>, <<>>),
          Ins("Abort", <<>>, <<>>) >>
       \o If(Len(c.languages) > 1, << Ins("!insertmacro", <<"MUI_LANGDLL_DISPLAY">>, <<>>) >>)
       \o If(c.verify_signature,
             << Ins("nsExec::ExecToStack", <<"powershell -NoProfile -Command \"& { $s = Get-AuthenticodeSignature -LiteralPath $env:__COMPAT_LAYER; if ($s.Status -ne [System.Management.Automation.SignatureStatus]::Valid) { exit 1 } }\"">>, <<>>),
                Ins("Pop", <<"$0">>, <<>>),
                Ins("StrCmp", <<"$0", "0">>, <<"_sig_ok">>),
                Ins("MessageBox", <<"MB_OK|MB_ICONSTOP",
                                    Localized(c, "SIGNATURE_FAILED",
                                        "Signature verification failed. Installation aborted.")>>, <<>>),
                Ins("Abort", <<>>, <<>>),
                LabelLine("_sig_ok") >>)
       \o If(c.logging,
             << Ins("!ifdef", <<"NSIS_CONFIG_LOG">>, <<>>),
                Ins("LogSet", <<"on">>, <<>>),
                Ins("!endif", <<>>, <<>>) >>)
       \o _generate_existing_install_check(c)
       \o [k \in 1..Len(all_sc) |->
              Ins("StrCpy", <<"$CREATE_SC_" \o ToString(all_sc[k].idx), state(all_sc[k])>>, <<>>)]
       \o Flatten([k \in 1..Len(flat) |-> Flags(k - 1)])
       \o << Ins("FunctionEnd", <<>>, <<>>) >>

-----------------------------------------------------------------------------
(* The configurations converted *)

\* at most MaxNodes components in the component tree
MaxNodes == 3
\* at most MaxEnvVars entries in install.env_vars
MaxEnvVars == 2
\* at most MaxShortcuts entries in install.shortcuts
MaxShortcuts == 2

EnvVar(name, value, scope, append) ==
    [name |-> name, value |-> value, scope |-> scope, remove_on_uninstall |-> TRUE, append |-> append]

EnvVarEntries ==
    { EnvVar("PATH", "$INSTDIR\\bin", "system", TRUE),
      EnvVar("Path", "${app.name}\\tools", "user", TRUE),
      EnvVar("PATH", "$INSTDIR\\bin", "system", FALSE),
      EnvVar("MY_HOME", "$INSTDIR", "user", FALSE) }

Shortcut(name, target, location, optional, default) ==
    [name |-> name, target |-> target, location |-> location, optional |-> optional,
     default |-> default, args |-> "", icon |-> "", workdir |-> ""]

ShortcutConfigs ==
    { Shortcut("", "$INSTDIR\\app.exe", "Desktop", TRUE, TRUE),
      Shortcut("${app.name} Tool", "bin\\tool.exe", "StartMenu", FALSE, TRUE),
      Shortcut("Tool", "C:\\Tools\\tool.exe", "$INSTDIR\\links", TRUE, FALSE),
      Shortcut("Nothing", "", "QuickLaunch", TRUE, TRUE) }

\* the texts the configurations hold, and what the context's resolver makes of each
Resolution ==
    [s \in {"$INSTDIR\\bin", "${app.name}\\tools", "$INSTDIR", "$INSTDIR\\app.exe", "bin\\tool.exe",
            "C:\\Tools\\tool.exe", "$INSTDIR\\links", "${app.name} Tool", "Tool", "Nothing",
            "Optional tools", "All of ${app.name}", "${app.name} Tools"} |->
        CASE s = "${app.name}\\tools" -> "MyApp\\tools"
          [] s = "${app.name} Tool" -> "MyApp Tool"
          [] s = "All of ${app.name}" -> "All of MyApp"
          [] s = "${app.name} Tools" -> "MyApp Tools"
          [] OTHER -> s]

Modes == {"prompt_uninstall", "auto_uninstall", "overwrite", "abort", "none"}

WaitTimes == {-1, 0, 1500}

\* ExistingInstallConfig
Policies ==
    [mode : Modes, version_check : BOOLEAN, allow_multiple : BOOLEAN, uninstaller_args : {"", "/quiet"},
     show_version_info : BOOLEAN, uninstall_wait_ms : WaitTimes]

\* ExistingInstallConfig(): the defaults
DefaultPolicy ==
    [mode |-> "prompt_uninstall", version_check |-> FALSE, allow_multiple |-> FALSE,
     uninstaller_args |-> "", show_version_info |-> TRUE, uninstall_wait_ms |-> 15000]

\* a configuration with nothing but the defaults
PlainContext ==
    [languages |-> <<>>, logging |-> FALSE, verify_signature |-> FALSE, effective_reg_view |-> "64",
     resolve |-> Resolution,
     install |-> [existing_install |-> DefaultPolicy, env_vars |-> <<>>, desktop_shortcut |-> None,
                  start_menu_shortcut |-> None, shortcuts |-> <<>>],
     packages |-> <<>>]

Component(name, description, optional, default, env_vars, desktop_shortcut, shortcuts, children) ==
    [name |-> name, description |-> description, optional |-> optional, default |-> default,
     env_vars |-> env_vars, desktop_shortcut |-> desktop_shortcut, start_menu_shortcut |-> None,
     shortcuts |-> shortcuts, children |-> children]

\* the components without children
Leaves(name) ==
    { Component(name, "", FALSE, TRUE, <<>>, None, <<>>, <<>>),
      Component(name, "Optional tools", TRUE, FALSE,
                << EnvVar("PATH", "$INSTDIR\\bin", "system", TRUE),
                   EnvVar("Path", "${app.name}\\tools", "user", TRUE) >>,
                None, << Shortcut("Tool", "C:\\Tools\\tool.exe", "$INSTDIR\\links", TRUE, FALSE) >>, <<>>),
      Component(name, "", TRUE, TRUE, << EnvVar("PATH", "$INSTDIR\\bin", "system", TRUE) >>,
                Some(Shortcut("", "$INSTDIR\\app.exe", "StartMenu", TRUE, TRUE)), <<>>, <<>>),
      Component(name, "Optional tools", TRUE, TRUE, << EnvVar("MY_HOME", "$INSTDIR", "user", FALSE) >>,
                None, <<>>, <<>>) }

RECURSIVE Components(_, _, _), Trees(_, _)
\* the lists of components of n nodes in all; the first is named prefix followed by k,
\* the next by k + 1, ...: every node has a name of its own
Components(n, prefix, k) ==
    IF n = 0 THEN {<<>>}
    ELSE UNION { { <<t>> \o rest : t \in Trees(m, prefix \o ToString(k)),
                                   rest \in Components(n - m, prefix, k + 1) } : m \in 1..n }
\* the components of m nodes
Trees(m, name) ==
    IF m = 1 THEN Leaves(name)
    ELSE { Component(name, description, FALSE, TRUE, <<>>, None, <<>>, children) :
               description \in {"", "All of ${app.name}"},
               children \in Components(m - 1, name \o ".", 1) }

PolicyContexts ==
    { [PlainContext EXCEPT !.languages = languages, !.logging = logging, !.install.existing_install = ei] :
          languages \in {<<>>, <<"English">>, <<"English", "SimplifiedChinese">>},
          logging \in BOOLEAN, ei \in Policies }

EnvVarContexts ==
    { [PlainContext EXCEPT !.logging = logging, !.verify_signature = logging, !.effective_reg_view = "32",
                           !.install.env_vars = env_vars] :
          logging \in BOOLEAN, env_vars \in SeqsUpTo(EnvVarEntries, MaxEnvVars) }

ShortcutContexts ==
    { [PlainContext EXCEPT !.logging = logging, !.install.desktop_shortcut = desktop_shortcut,
                           !.install.start_menu_shortcut = start_menu_shortcut,
                           !.install.shortcuts = shortcuts] :
          logging \in BOOLEAN,
          desktop_shortcut \in {None, Some(Shortcut("", "$INSTDIR\\app.exe", "", FALSE, TRUE))},
          start_menu_shortcut \in {None, Some(Shortcut("Tool", "bin\\tool.exe", "", TRUE, FALSE))},
          shortcuts \in SeqsUpTo(ShortcutConfigs, MaxShortcuts) }

PackageContexts ==
    { [PlainContext EXCEPT !.logging = logging, !.languages = IF logging THEN <<"English">> ELSE <<>>,
                           !.install.shortcuts =
                               IF logging THEN << Shortcut("", "$INSTDIR\\app.exe", "Desktop", TRUE, TRUE) >>
                               ELSE <<>>,
                           !.packages = packages] :
          logging \in BOOLEAN,
          packages \in UNION { Components(n, "c", 1) : n \in 1..MaxNodes } }

\* a component whose name holds a reference to the configuration
NamedContexts ==
    { [PlainContext EXCEPT !.logging = logging,
                           !.packages = << Component("${app.name} Tools", description, optional, TRUE,
                                                     <<>>, None, <<>>, <<>>) >>] :
          logging \in BOOLEAN, optional \in BOOLEAN, description \in {"", "All of ${app.name}"} }

Contexts == PolicyContexts \cup EnvVarContexts \cup ShortcutContexts \cup PackageContexts
            \cup NamedContexts

-----------------------------------------------------------------------------
(* converters/convert_nsis.py, YamlToNsisConverter.convert: parts holds the *)
(* lines of the generators above, in the order convert() calls them; stage  *)
(* numbers the generator called next.                                       *)

InitConvert ==
    /\ ctx \in Contexts
    /\ parts = <<>>
    /\ stage = 0
    /\ script = NoScript
    /\ ResolverIdle
    /\ ReorderIdle
    /\ RunIdle

\* whether generate_package_sections calls collect_all_shortcuts (in _emit_shortcuts_for)
EnumeratesShortcuts(c) ==
    \E k \in 1..Len(_flatten_packages(c.packages)) :
        LET pkg == _flatten_packages(c.packages)[k]
        IN pkg.desktop_shortcut.some \/ pkg.start_menu_shortcut.some \/ pkg.shortcuts # <<>>

\* "any(e.append for e in self.config.install.env_vars)"
needs_path_helpers(c) ==
    \E i \in 1..Len(c.install.env_vars) : c.install.env_vars[i].append

\* the PATH helper fragment: the two routines the environment-variable code calls
generate_path_helpers(c) ==
    << Ins("Function", <<"_StrContains">>, <<>>),
       Ins("FunctionEnd", <<>>, <<>>),
       Ins("Function", <<"un._RemovePathEntry">>, <<>>),
       Ins("FunctionEnd", <<>>, <<>>) >>

\* "if needs_path_helpers: parts.extend(generate_path_helpers(self.ctx))"
PathHelpers ==
    /\ stage = 0
    /\ parts' = parts \o If(needs_path_helpers(ctx), generate_path_helpers(ctx))
    /\ stage' = 1
    /\ UNCHANGED <<ctx, script, resolverVars, reorderVars, runVars>>

\* "parts.extend(generate_installer_section(self.ctx))"
InstallerSection ==
    /\ stage = 1
    /\ parts' = parts \o generate_installer_section(ctx)
    /\ ctx' = SetLocations(ctx)
    /\ stage' = 2
    /\ UNCHANGED <<script, resolverVars, reorderVars, runVars>>

\* "parts.extend(generate_package_sections(self.ctx))"
PackageSections ==
    /\ stage = 2
    /\ parts' = parts \o generate_package_sections(ctx)
    /\ ctx' = IF EnumeratesShortcuts(ctx) THEN SetLocations(ctx) ELSE ctx
    /\ stage' = 3
    /\ UNCHANGED <<script, resolverVars, reorderVars, runVars>>

\* "parts.extend(generate_package_descriptions(self.ctx))"
PackageDescriptions ==
    /\ stage = 3
    /\ parts' = parts \o generate_package_descriptions(ctx)
    /\ stage' = 4
    /\ UNCHANGED <<ctx, script, resolverVars, reorderVars, runVars>>

\* "parts.extend(generate_uninstaller_section(self.ctx))"
UninstallerSection ==
    /\ stage = 4
    /\ parts' = parts \o generate_uninstaller_section(ctx)
    /\ ctx' = SetLocations(ctx)
    /\ stage' = 5
    /\ UNCHANGED <<script, resolverVars, reorderVars, runVars>>

\* "parts.extend(generate_existing_install_helpers(self.ctx))"
ExistingInstallHelpers ==
    /\ stage = 5
    /\ parts' = parts \o generate_existing_install_helpers(ctx)
    /\ stage' = 6
    /\ UNCHANGED <<ctx, script, resolverVars, reorderVars, runVars>>

\* "parts.extend(generate_oninstsuccess(self.ctx))"
OnInstSuccess ==
    /\ stage = 6
    /\ parts' = parts \o generate_oninstsuccess(ctx)
    /\ stage' = 7
    /\ UNCHANGED <<ctx, script, resolverVars, reorderVars, runVars>>

\* "parts.extend(generate_oninit(self.ctx))"
OnInit ==
    /\ stage = 7
    /\ parts' = parts \o generate_oninit(ctx)
    /\ ctx' = SetLocations(ctx)
    /\ stage' = 8
    /\ UNCHANGED <<script, resolverVars, reorderVars, runVars>>

\* the texts of the configurations that hold a lowercase dotted reference, alone
\* or inside the log messages the generators build around a component's name
ConfigRefFrames ==
    {<<"", "">>, <<"Installing component: ", "">>, <<"Component ", " done.">>,
     <<"Skipping component: ", "">>}

\* the texts that hold such a reference, and what replacing every
\* '${[a-z][a-z0-9_.]*}' of the text by the context's resolve of it gives
SubstitutionTable ==
    LET held == {<<f, t>> \in ConfigRefFrames \X DOMAIN Resolution : Resolution[t] # t}
        Held(s) == CHOOSE h \in held : s = h[1][1] \o h[2] \o h[1][2]
    IN [s \in {h[1][1] \o h[2] \o h[1][2] : h \in held} |->
           Held(s)[1][1] \o Resolution[Held(s)[2]] \o Held(s)[1][2]]

\* save(): "pattern.sub(_repl, script)" on one text of a line
final_substitution(c, s) ==
    IF s \in DOMAIN SubstitutionTable THEN SubstitutionTable[s] ELSE s

\* the lines save() writes for the lines convert() returned
Substituted(c, lines) ==
    [i \in 1..Len(lines) |->
        [lines[i] EXCEPT !.args = [k \in 1..Len(lines[i].args) |-> final_substitution(c, lines[i].args[k])]]]

\* "if line.strip().startswith('!define MUI_FINISHPAGE_RUN'): continue"
filtered_parts(lines) ==
    SelectSeq(lines, LAMBDA line : ~(line.op = "!define" /\ line.args # <<>>
                                       /\ line.args[1] \in {"MUI_FINISHPAGE_RUN", "MUI_FINISHPAGE_RUN_TEXT"}))

\* "return '\n'.join(reordered_lines)": the sections and functions of parts hold
\* no page directive, so _reorder_mui_language returns the lines it was given
convert(lines) == filtered_parts(lines)

\* the web endpoint: "script = converter.convert()", returned as the response
ConvertReturns ==
    /\ stage = 8
    /\ script' = [by |-> "convert", lines |-> convert(parts)]
    /\ stage' = 9
    /\ UNCHANGED <<ctx, parts, resolverVars, reorderVars, runVars>>

\* save(): "script = self.convert()", the substitution, and the write of the file
Save ==
    /\ stage = 8
    /\ script' = [by |-> "save", lines |-> Substituted(ctx, convert(parts))]
    /\ stage' = 9
    /\ UNCHANGED <<ctx, parts, resolverVars, reorderVars, runVars>>

NextConvert ==
    \/ PathHelpers
    \/ InstallerSection
    \/ PackageSections
    \/ PackageDescriptions
    \/ UninstallerSection
    \/ ExistingInstallHelpers
    \/ OnInstSuccess
    \/ OnInit
    \/ ConvertReturns
    \/ Save

SpecConvert == InitConvert /\ [][NextConvert]_vars

-----------------------------------------------------------------------------
(* Properties of the generated script *)

\* the jump targets that name no label: "0" (no jump) and the relative "+n"
RelativeTargets == {"0"} \cup {"+" \o ToString(n) : n \in 1..9}

\* the line that closes the Section or Function opened by line i
UnitEnd(lines, i) ==
    CHOOSE j \in i..Len(lines) :
        /\ lines[j].op \in {"SectionEnd", "FunctionEnd"}
        /\ \A k \in i..(j - 1) : lines[k].op \notin {"SectionEnd", "FunctionEnd"}

\* the lines of the Section or Function opened by line i that define a label
LabelLines(lines, i) == {k \in i..UnitEnd(lines, i) : lines[k].op = "label"}

\* the labels named as jump targets in the Section or Function opened by line i
NamedTargets(lines, i) ==
    UNION { {lines[k].jumps[n] : n \in 1..Len(lines[k].jumps)} : k \in i..UnitEnd(lines, i) }
        \ RelativeTargets

\* C6: every component has the ID of the pre-order walk: the k-th component without
\* children SEC_PKG_k, the m-th component with children and a description SEC_GROUP_m
\* (both from 0); the emitted sections and groups, _collect_all_packages_with_ids,
\* and the numbering of _flatten_packages used by .onInit, .onInstSuccess and the
\* shortcut collection all give each component that ID.
RECURSIVE PreOrder(_)
PreOrder(packages) ==
    IF packages = <<>> THEN <<>>
    ELSE <<Head(packages)>> \o PreOrder(Head(packages).children) \o PreOrder(Tail(packages))

\* the IDs of the walk, as pairs <<name of the component, ID>>
WalkIds(packages) ==
    LET leaves == SelectSeq(PreOrder(packages), LAMBDA p : p.children = <<>>)
        groups == SelectSeq(PreOrder(packages), LAMBDA p : p.children # <<>> /\ p.description # "")
    IN {<<leaves[k].name, "SEC_PKG_" \o ToString(k - 1)>> : k \in 1..Len(leaves)}
       \cup {<<groups[m].name, "SEC_GROUP_" \o ToString(m - 1)>> : m \in 1..Len(groups)}

\* the IDs the emitted lines give: Section and SectionGroup /e lines with an ID, the
\* SectionGetFlags of .onInstSuccess and the SectionSetFlags of .onInit
EmittedIds(lines) ==
    {<<lines[i].args[1], lines[i].args[2]>> :
        i \in {i \in 1..Len(lines) : lines[i].op = "Section" /\ Len(lines[i].args) = 2
                                         /\ lines[i].args[2] # "SEC_INSTALL"}}
    \cup {<<lines[i].args[2], lines[i].args[3]>> :
        i \in {i \in 1..Len(lines) : lines[i].op = "SectionGroup" /\ Len(lines[i].args) = 3}}

C6_ComponentIds ==
    stage >= 3 =>
        LET ids == WalkIds(ctx.packages)
            leaves == SelectSeq(PreOrder(ctx.packages), LAMBDA p : p.children = <<>>)
            flat == _flatten_packages(ctx.packages)
            flat_ids == {<<flat[k].name, "SEC_PKG_" \o ToString(k - 1)>> : k \in 1..Len(flat)}
            all_pkgs == _collect_all_packages_with_ids(ctx.packages)
            all_sc == collect_all_shortcuts(ctx)
        IN /\ EmittedIds(parts) = ids
           /\ {<<all_pkgs[k][1].name, all_pkgs[k][2]>> : k \in 1..Len(all_pkgs)} = ids
           /\ flat_ids \subseteq ids
           /\ Cardinality(flat_ids) = Len(leaves)
           /\ \A k \in 1..Len(all_sc) :
                  all_sc[k].section # "global" =>
                      \E q \in 1..Len(flat) :
                          /\ <<flat[q].name, all_sc[k].section>> \in ids
                          /\ \/ \E n \in 1..Len(flat[q].shortcuts) : all_sc[k].config = flat[q].shortcuts[n]
                             \/ /\ flat[q].desktop_shortcut.some
                                /\ all_sc[k].config = flat[q].desktop_shortcut.v

\* two components without children and a described group around the second:
\* SEC_PKG_0, SEC_PKG_1 and SEC_GROUP_0
C6_Witness ==
    /\ stage >= 3
    /\ Len(ctx.packages) = 2
    /\ ctx.packages[1].children = <<>>
    /\ Len(ctx.packages[2].children) = 1
    /\ ctx.packages[2].description # ""
    /\ EmittedIds(parts) = {<<"c1", "SEC_PKG_0">>, <<"c2.1", "SEC_PKG_1">>, <<"c2", "SEC_GROUP_0">>}

\* C9: in Function .onInit and in Function ExistingInstall_DirLeave every label named
\* as a jump target is defined as a label of the same function.
C9_JumpTargetsDefined ==
    \A i \in 1..Len(parts) :
        (parts[i].op = "Function" /\ parts[i].args[1] \in {".onInit", "ExistingInstall_DirLeave"}) =>
            NamedTargets(parts, i) \subseteq {parts[k].args[1] : k \in LabelLines(parts, i)}

\* C10: no Section and no Function defines a label twice.
C10_LabelsUnique ==
    \A i \in 1..Len(parts) :
        parts[i].op \in {"Section", "Function"} =>
            \A k, l \in LabelLines(parts, i) : parts[k].args[1] = parts[l].args[1] => k = l


-----------------------------------------------------------------------------
(* The emitted script at run time: the installer executes one emitted       *)
(* Function, line by line.  A register holds a string; a number is the       *)
(* string of its decimal digits.  The machine (world) holds the registry's   *)
(* InstallPath, the directory selected on the directory page, the            *)
(* directories that hold an Uninstall.exe, the version resource of that      *)
(* file, and the version being installed (the defines APP_VERSION and        *)
(* APP_VERSION_VI of the script header).                                     *)

\* most polls ("IntOp $R3 $R3 + 500") of one wait loop
MaxPolls == 4
\* most runs of the previous uninstaller (ExecWait) in one execution
MaxRuns == 2

Registers == {"$0", "$1", "$2", "$3", "$4", "$5", "$9", "$R0", "$R1", "$R2", "$R3", "$R4", "$R6", "$INSTDIR"}

\* the numbers the registers hold
Numbers ==
    {0, 1, 2, 65536, 131072} \cup {w \in WaitTimes : w >= 0} \cup {500 * k : k \in 0..(MaxPolls + 1)}

\* the number a string stands for (0 if it is no number, as in NSIS)
Num(s) == IF \E n \in Numbers : ToString(n) = s THEN CHOOSE n \in Numbers : ToString(n) = s ELSE 0

\* the value of an operand: registers and defines are replaced by what they hold
Expand(s) ==
    IF s \in Registers THEN regs[s]
    ELSE CASE s = "$R1\\Uninstall.exe" -> regs["$R1"] \o "\\Uninstall.exe"
           [] s = "$2.$3.$4.$5" -> regs["$2"] \o "." \o regs["$3"] \o "." \o regs["$4"] \o "." \o regs["$5"]
           [] s = "${APP_VERSION}" -> world.app_version
           [] s = "${APP_VERSION_VI}" -> world.app_version_vi
           [] OTHER -> s

\* every file is found to exist (mutation)
FileAlwaysExists(s) == TRUE

\* whether the file an operand names exists
FileExists(s) == \E d \in world.uninstallers : Expand(s) = d \o "\\Uninstall.exe"

\* the line "Function <name>"
FunctionLine(lines, name) ==
    CHOOSE i \in 1..Len(lines) : lines[i].op = "Function" /\ lines[i].args[1] = name

RECURSIVE SkipLabels(_, _)
\* the first line from line i on that holds an instruction
SkipLabels(lines, i) ==
    IF i <= Len(lines) /\ lines[i].op = "label" THEN SkipLabels(lines, i + 1) ELSE i

RECURSIVE Forward(_, _, _)
\* the n-th instruction after the instruction of line i
Forward(lines, i, n) == IF n = 0 THEN i ELSE Forward(lines, SkipLabels(lines, i + 1), n - 1)

\* the line a jump of the instruction at line i to target t leads to: "0" and a
\* missing target are the next instruction, "+n" the n-th instruction from here,
\* a name the instruction after the label of that name in the same Function
JumpTo(lines, i, t) ==
    IF t \in {"0", ""} THEN Forward(lines, i, 1)
    ELSE IF t \in RelativeTargets
         THEN Forward(lines, i, CHOOSE n \in 1..9 : t = "+" \o ToString(n))
         ELSE SkipLabels(lines, CHOOSE k \in LabelLines(lines, FunctionLine(lines, fn)) :
                                    lines[k].args[1] = t)

\* makensis resolves every named jump target inside its Function or Section and
\* rejects the script if a label is not declared there
Compiles(lines) ==
    \A i \in 1..Len(lines) :
        lines[i].op \in {"Section", "Function"}
        => NamedTargets(lines, i) \subseteq {lines[k].args[1] : k \in LabelLines(lines, i)}

\* the k-th jump target of an instruction, "" if it has none
Target(ins, k) == IF k <= Len(ins.jumps) THEN ins.jumps[k] ELSE ""

\* the buttons of a message box
Buttons(flags) ==
    CASE flags = "MB_YESNO|MB_ICONQUESTION" -> {"IDYES", "IDNO"}
      [] flags = "MB_RETRYCANCEL|MB_ICONEXCLAMATION" -> {"IDRETRY", "IDCANCEL"}
      [] OTHER -> {"IDOK"}

\* the target a conditional or unconditional jump takes
Branch(ins) ==
    CASE ins.op = "Goto" -> Target(ins, 1)
      [] ins.op = "StrCmp" ->
            IF Expand(ins.args[1]) = Expand(ins.args[2]) THEN Target(ins, 1) ELSE Target(ins, 2)
      [] ins.op = "IntCmp" ->
            LET a == Num(Expand(ins.args[1]))
                b == Num(Expand(ins.args[2]))
            IN IF a = b THEN Target(ins, 1) ELSE IF a < b THEN Target(ins, 2) ELSE Target(ins, 3)
      [] ins.op = "IfFileExists" ->
            IF FileExists(ins.args[1]) THEN Target(ins, 1) ELSE Target(ins, 2)

\* the registers after an instruction that writes a register
Assign(ins) ==
    CASE ins.op = "StrCpy" ->
            IF ins.args[1] \in Registers THEN [regs EXCEPT ![ins.args[1]] = Expand(ins.args[2])] ELSE regs
      [] ins.op = "ReadRegStr" -> [regs EXCEPT ![ins.args[1]] = world.install_path]
      [] ins.op = "GetDLLVersion" ->
            IF FileExists(ins.args[1])
            THEN [regs EXCEPT ![ins.args[2]] = ToString(world.version.dll[1]),
                              ![ins.args[3]] = ToString(world.version.dll[2])]
            ELSE [regs EXCEPT ![ins.args[2]] = "", ![ins.args[3]] = ""]
      [] ins.op = "IntOp" ->
            LET a == Num(Expand(ins.args[2]))
            IN [regs EXCEPT ![ins.args[1]] =
                    ToString(CASE ins.args[3] = ">>" -> a \div 65536
                               [] ins.args[3] = "&" -> a % 65536
                               [] ins.args[3] = "+" -> a + Num(ins.args[4]))]
      [] ins.op = "Pop" -> [regs EXCEPT ![ins.args[1]] = Head(nsis_stack)]
      [] ins.op = "System::Call" -> [regs EXCEPT !["$1"] = "1"]
      [] ins.op = "Call" -> [regs EXCEPT !["$0"] = Head(nsis_stack), !["$9"] = regs["$0"]]
      [] OTHER -> regs

\* the stack after an instruction: "System::Call ... ?e" pushes the last error,
\* "Call _YPACK_GetFileProductVersion" replaces the path on the stack by the
\* ProductVersion string of that file ("" if it has none)
Stacked(ins) ==
    CASE ins.op = "Push" -> <<Expand(ins.args[1])>> \o nsis_stack
      [] ins.op = "Pop" -> Tail(nsis_stack)
      [] ins.op = "System::Call" -> <<IF world.first_instance THEN "0" ELSE "183">> \o nsis_stack
      [] ins.op = "Call" ->
            <<IF \E d \in world.uninstallers : Head(nsis_stack) = d \o "\\Uninstall.exe"
              THEN world.version.product ELSE "">> \o Tail(nsis_stack)
      [] OTHER -> nsis_stack

\* the directory of the previous installation and another directory
OldDir == "C:\\Old"
NewDir == "C:\\New"

\* the version resource of the previous Uninstall.exe: the ProductVersion string
\* and the two halves of the fixed file version (1.0 is 65536)
VersionInfos ==
    { [product |-> "1.0.0", dll |-> <<65536, 0>>], [product |-> "2.0.0", dll |-> <<131072, 1>>],
      [product |-> "", dll |-> <<65536, 0>>], [product |-> "", dll |-> <<131072, 1>>],
      [product |-> "", dll |-> <<0, 0>>] }

\* the machines: version 1.0.0 is being installed
Worlds ==
    [first_instance : BOOLEAN, install_path : {"", OldDir}, instdir : {OldDir, NewDir},
     uninstallers : {{}, {OldDir}}, version : VersionInfos,
     app_version : {"1.0.0"}, app_version_vi : {"1.0.0.0"}]

\* the configurations whose installer is run
RunContexts == {c \in PolicyContexts : c.install.existing_install.uninstaller_args = ""
                                        /\ (c.languages # <<>>) = c.logging
                                        /\ Len(c.languages) <= 1}

\* the functions of the script, in the order convert() emits them
Script(c) == generate_existing_install_helpers(c) \o generate_oninit(c)

\* the installer of a configuration is built; .onInit, or the leave callback of the
\* directory page, is about to be called
InitRun ==
    /\ ctx \in RunContexts
    /\ parts = Script(ctx)
    /\ stage = 8
    /\ script = NoScript
    /\ fn = IF \E i \in 1..Len(parts) : parts[i] = Ins("Function", <<"ExistingInstall_DirLeave">>, <<>>)
            THEN "ExistingInstall_DirLeave" ELSE ".onInit"
    /\ world \in Worlds
    /\ fn = ".onInit" => world.instdir = NewDir
    /\ fn # ".onInit" => world.first_instance
    /\ pc = 0
    /\ regs = [r \in Registers |-> IF r = "$INSTDIR" THEN world.instdir ELSE ""]
    /\ nsis_stack = <<>>
    /\ shown = <<>>
    /\ runs = 0
    /\ status = "loaded"
    /\ ResolverIdle
    /\ ReorderIdle

\* the function is entered, if makensis accepted the script
Enter ==
    /\ status = "loaded"
    /\ IF Compiles(parts)
       THEN status' = "running" /\ pc' = Forward(parts, FunctionLine(parts, fn), 1)
       ELSE status' = "invalid" /\ pc' = pc
    /\ UNCHANGED <<fn, regs, nsis_stack, world, shown, runs, resolverVars, reorderVars, convertVars>>

\* StrCpy, ReadRegStr, GetDLLVersion, IntOp, Push, Pop, System::Call, Call
StepAssign ==
    /\ status = "running"
    /\ parts[pc].op \in {"StrCpy", "ReadRegStr", "GetDLLVersion", "IntOp", "Push", "Pop", "System::Call", "Call"}
    /\ (parts[pc].op = "IntOp" /\ parts[pc].args[3] = "+") => Num(Expand(parts[pc].args[2])) < 500 * MaxPolls
    /\ regs' = Assign(parts[pc])
    /\ nsis_stack' = Stacked(parts[pc])
    /\ pc' = Forward(parts, pc, 1)
    /\ UNCHANGED <<fn, world, shown, runs, status, resolverVars, reorderVars, convertVars>>

\* Goto, StrCmp, IntCmp, IfFileExists
StepJump ==
    /\ status = "running"
    /\ parts[pc].op \in {"Goto", "StrCmp", "IntCmp", "IfFileExists"}
    /\ pc' = JumpTo(parts, pc, Branch(parts[pc]))
    /\ UNCHANGED <<fn, regs, nsis_stack, world, shown, runs, status, resolverVars, reorderVars, convertVars>>

\* a MessageBox that never jumps (mutation)
StepMessageBoxNoJump ==
    /\ status = "running"
    /\ parts[pc].op = "MessageBox"
    /\ \E answer \in Buttons(parts[pc].args[1]) :
          shown' = Append(shown, [text |-> parts[pc].args[2], answer |-> answer])
    /\ pc' = Forward(parts, pc, 1)
    /\ UNCHANGED <<fn, regs, nsis_stack, world, runs, status, resolverVars, reorderVars, convertVars>>

\* MessageBox: the user presses one of the buttons
StepMessageBox ==
    /\ status = "running"
    /\ parts[pc].op = "MessageBox"
    /\ \E answer \in Buttons(parts[pc].args[1]) :
          /\ shown' = Append(shown, [text |-> parts[pc].args[2], answer |-> answer])
          /\ pc' = JumpTo(parts, pc,
                          IF \E k \in 1..Len(parts[pc].jumps) : parts[pc].args[2 + k] = answer
                          THEN parts[pc].jumps[CHOOSE k \in 1..Len(parts[pc].jumps) : parts[pc].args[2 + k] = answer]
                          ELSE "")
    /\ UNCHANGED <<fn, regs, nsis_stack, world, runs, status, resolverVars, reorderVars, convertVars>>

\* ExecWait: the previous uninstaller runs and returns an exit code; it has
\* removed itself by then, or does so later, or never
StepExecWait ==
    /\ status = "running"
    /\ parts[pc].op = "ExecWait"
    /\ runs < MaxRuns
    /\ \E code \in {"0", "1"}, removed \in BOOLEAN :
          /\ regs' = [regs EXCEPT ![parts[pc].args[2]] = code]
          /\ world' = IF removed THEN [world EXCEPT !.uninstallers = @ \ {regs["$R1"]}] ELSE world
    /\ runs' = runs + 1
    /\ pc' = Forward(parts, pc, 1)
    /\ UNCHANGED <<fn, nsis_stack, shown, status, resolverVars, reorderVars, convertVars>>

\* the uninstaller that was started removes its Uninstall.exe
UninstallerFinishes ==
    /\ status = "running"
    /\ runs > 0
    /\ regs["$R1"] \in world.uninstallers
    /\ world' = [world EXCEPT !.uninstallers = @ \ {regs["$R1"]}]
    /\ UNCHANGED <<fn, pc, regs, nsis_stack, shown, runs, status, resolverVars, reorderVars, convertVars>>

\* Abort
StepAbort ==
    /\ status = "running"
    /\ parts[pc].op = "Abort"
    /\ status' = "aborted"
    /\ UNCHANGED <<fn, pc, regs, nsis_stack, world, shown, runs, resolverVars, reorderVars, convertVars>>

\* FunctionEnd
StepReturn ==
    /\ status = "running"
    /\ parts[pc].op = "FunctionEnd"
    /\ status' = "returned"
    /\ UNCHANGED <<fn, pc, regs, nsis_stack, world, shown, runs, resolverVars, reorderVars, convertVars>>

\* SetRegView, Sleep, !insertmacro LogWrite, ...: nothing the flow depends on changes
StepOther ==
    /\ status = "running"
    /\ parts[pc].op \notin {"StrCpy", "ReadRegStr", "GetDLLVersion", "IntOp", "Push", "Pop", "System::Call",
                            "Call", "Goto", "StrCmp", "IntCmp", "IfFileExists", "MessageBox", "ExecWait",
                            "Abort", "FunctionEnd"}
    /\ pc' = Forward(parts, pc, 1)
    /\ UNCHANGED <<fn, regs, nsis_stack, world, shown, runs, status, resolverVars, reorderVars, convertVars>>

NextRun ==
    \/ Enter
    \/ StepAssign
    \/ StepJump
    \/ StepMessageBox
    \/ StepExecWait
    \/ UninstallerFinishes
    \/ StepAbort
    \/ StepReturn
    \/ StepOther

SpecRun == InitRun /\ [][NextRun]_vars

-----------------------------------------------------------------------------
(* Properties of the existing-install check at run time, checked under SpecRun *)

\* the policy of the configuration
Policy == ctx.install.existing_install

\* the directory the check is keyed on: the registry's InstallPath in .onInit, the
\* selected directory in the leave callback of the directory page
CheckedDir == IF fn = ".onInit" THEN world.install_path ELSE world.instdir

\* the check finds a previous installation with an uninstaller (the uninstaller
\* is only ever run after it was found)
Found == world.first_instance /\ (runs > 0 \/ (CheckedDir # "" /\ CheckedDir \in world.uninstallers))

\* the version of the previous installation: the ProductVersion string of its
\* uninstaller, else its fixed file version a.b.c.d, "" if that is 0.0.0.0
InstalledVersion ==
    LET v == world.version
        part(n) == ToString(n \div 65536) \o "." \o ToString(n % 65536)
    IN IF v.product # "" THEN v.product
       ELSE IF v.dll = <<0, 0>> THEN "" ELSE part(v.dll[1]) \o "." \o part(v.dll[2])

\* the version check finds the version being installed
SameVersion == InstalledVersion \in {world.app_version, world.app_version_vi}

\* the flow comes to the decision of the mode
Decides == Found /\ ~(Policy.version_check /\ SameVersion)

\* the execution of the function is over
Over == status \in {"aborted", "returned"}

\* the texts of the message boxes
AbortVer == {"$(EXISTING_INSTALL_ABORT)",
             "An existing installation (version $R2) was found at $R1. Installation aborted."}
AbortNoVer == {"$(EXISTING_INSTALL_ABORT_NO_VER)",
               "An existing installation was found at $R1. Installation aborted."}

\* C11: with mode abort and show_version_info, the script is one the installer can
\* run, no execution runs the previous uninstaller, and every execution in which
\* the check finds a previous installation with an uninstaller (and the version
\* check does not skip it) shows exactly one message, the version-aware abort
\* message if the version is not empty and the version-less one if it is, and
\* ends with Abort.
C11_AbortShowsVersion ==
    (Policy.mode = "abort" /\ Policy.show_version_info)
    => /\ status # "invalid"
       /\ runs = 0
       /\ (Over /\ Decides)
          => /\ status = "aborted"
             /\ \E t \in (IF InstalledVersion # "" THEN AbortVer ELSE AbortNoVer) :
                    shown = <<[text |-> t, answer |-> "IDOK"]>>

\* the line of the label of that name in the function being executed
LabelAt(name) ==
    CHOOSE k \in LabelLines(parts, FunctionLine(parts, fn)) : parts[k].args[1] = name

\* line p lies in the wait loop of the .onInit check
InLoop(p) ==
    /\ \E k \in LabelLines(parts, FunctionLine(parts, fn)) : parts[k].args[1] = "_ei_wait_loop"
    /\ LabelAt("_ei_wait_loop") < p
    /\ p < LabelAt("_ei_wait_done")

\* C12: with a negative uninstall_wait_ms the .onInit check holds no comparison of
\* the elapsed counter (no IntCmp); once the uninstaller was started the flow
\* enters the poll loop, which begins with Sleep; a test of the loop that finds
\* Uninstall.exe present goes back to the Sleep, and the flow leaves the loop only
\* by a test that finds it gone.
C12_UnboundedWait ==
    [][ (Policy.uninstall_wait_ms < 0 /\ fn = ".onInit" /\ status = "running")
        => /\ \A k \in FunctionLine(parts, fn)..UnitEnd(parts, FunctionLine(parts, fn)) :
                  parts[k].op # "IntCmp"
           /\ parts[pc].op = "ExecWait"
              => /\ InLoop(Forward(parts, pc', 1))
                 /\ parts[Forward(parts, pc', 1)].op = "Sleep"
           /\ InLoop(pc)
              => /\ status' = "running"
                 /\ (parts[pc].op = "IfFileExists" /\ FileExists(parts[pc].args[1]) /\ pc' # pc)
                    => parts[pc'].op = "Sleep" /\ InLoop(pc')
                 /\ ~InLoop(pc') => parts[pc].op = "IfFileExists" /\ ~FileExists(parts[pc].args[1])
      ]_vars

\* the loop has polled three times (1500 ms) and goes on; the uninstaller is still there
C12_Witness ==
    /\ Policy.uninstall_wait_ms < 0
    /\ fn = ".onInit"
    /\ status = "running"
    /\ InLoop(pc)
    /\ parts[pc].op = "Sleep"
    /\ regs["$R3"] = "1500"
    /\ regs["$R1"] \in world.uninstallers

RECURSIVE SkipLog(_)
\* the first line from line p on that is no log macro
SkipLog(p) == IF parts[p].op = "!insertmacro" THEN SkipLog(Forward(parts, p, 1)) ELSE p

\* line p lies in the uninstall-and-wait sub-state of the .onInit check
InSub(p) ==
    /\ \E k \in LabelLines(parts, FunctionLine(parts, fn)) : parts[k].args[1] = "_ei_do_uninstall"
    /\ LabelAt("_ei_do_uninstall") < p
    /\ p < LabelAt("_ei_cancel")

\* C13: with a non-negative uninstall_wait_ms, in the .onInit check: when the final
\* test of the uninstall-and-wait sub-state finds Uninstall.exe still present
\* (the exit code was not 0), the next instruction, log lines aside, is the
\* retry/cancel prompt; on retry the uninstaller is run again, on cancel the
\* installation is aborted; and the flow goes from the sub-state to the proceed
\* state only by the test of the exit code with exit code 0 or by a test that
\* finds the file gone.
C13_RetryOrCancel ==
    [][ (Policy.uninstall_wait_ms >= 0 /\ fn = ".onInit" /\ status = "running" /\ InSub(pc) /\ pc' # pc)
        => /\ (parts[pc].op = "IfFileExists" /\ parts[pc].jumps = <<"0", "_ei_done">>
                  /\ FileExists(parts[pc].args[1]))
              => /\ regs["$R4"] # "0"
                 /\ parts[SkipLog(pc')].op = "MessageBox"
                 /\ parts[SkipLog(pc')].args[1] = "MB_RETRYCANCEL|MB_ICONEXCLAMATION"
           /\ parts[pc].op = "MessageBox"
              => /\ Last(shown').answer = "IDRETRY" => InSub(pc') /\ parts[SkipLog(pc')].op = "ExecWait"
                 /\ Last(shown').answer = "IDCANCEL" => parts[pc'].op = "Abort"
           /\ ~InSub(pc')
              => \/ parts[pc'].op = "Abort" /\ parts[pc].op = "MessageBox"
                 \/ /\ pc' > LabelAt("_ei_done")
                    /\ \/ parts[pc].op = "StrCmp" /\ parts[pc].args[1] = "$R4" /\ regs["$R4"] = "0"
                       \/ parts[pc].op = "IfFileExists" /\ ~FileExists(parts[pc].args[1])
      ]_vars

\* the uninstaller failed, the user chose retry, it failed again and the user cancelled
C13_Witness ==
    /\ Policy.uninstall_wait_ms = 1500
    /\ fn = ".onInit"
    /\ status = "aborted"
    /\ runs = 2
    /\ regs["$R4"] = "1"
    /\ regs["$R1"] \in world.uninstallers
    /\ Len(shown) >= 2
    /\ shown[Len(shown) - 1].answer = "IDRETRY"
    /\ Last(shown).answer = "IDCANCEL"

PromptVer == {"$(EXISTING_INSTALL_PROMPT)",
              "An existing installation (version $R2) was found at:$\\r$\\n$R1$\\r$\\n$\\r$\\nUninstall it first and continue?"}
PromptNoVer == {"$(EXISTING_INSTALL_PROMPT_NO_VER)",
                "An existing installation was found at:$\\r$\\n$R1$\\r$\\n$\\r$\\nUninstall it first and continue?"}

\* what the mode decides, in a state of an execution
Decision ==
    CASE Policy.mode = "prompt_uninstall" ->
            (Over /\ Decides)
            => /\ shown # <<>>
               /\ shown[1].text \in (IF Policy.show_version_info /\ InstalledVersion # ""
                                     THEN PromptVer ELSE PromptNoVer)
               /\ shown[1].answer \in {"IDYES", "IDNO"}
               /\ shown[1].answer = "IDNO" => status = "aborted" /\ runs = 0 /\ Len(shown) = 1
               /\ shown[1].answer = "IDYES" => runs >= 1
      [] Policy.mode = "auto_uninstall" ->
            Decides => /\ shown # <<>> => runs >= 1
                       /\ \A k \in 1..Len(shown) : shown[k].answer \in {"IDRETRY", "IDCANCEL"}
                       /\ Over => runs >= 1
      [] Policy.mode = "overwrite" ->
            /\ runs = 0
            /\ world.first_instance => shown = <<>> /\ status # "aborted"
      [] Policy.mode = "none" ->
            /\ _generate_existing_install_check(ctx) = <<>>
            /\ generate_existing_install_helpers(ctx) = <<>>
            /\ \A i \in 1..Len(parts) :
                  /\ parts[i].op = "Function" => parts[i].args[1] = ".onInit"
                  /\ parts[i].op \notin {"ReadRegStr", "IfFileExists", "ExecWait", "Call"}
      [] OTHER -> TRUE

\* C14: once the check has found an uninstaller and the version check has not
\* skipped, the mode decides: prompt_uninstall shows, as its first message, the
\* yes/no prompt (the version-aware one exactly if show_version_info is set and the
\* version is not empty), yes leads to running the uninstaller and no to Abort;
\* auto_uninstall runs the uninstaller before any message and shows no yes/no
\* prompt; overwrite never runs the uninstaller, shows nothing and does not abort;
\* for mode none the check and the helper routines are not emitted at all.
C14_ModeDecides ==
    [][ /\ Decision'
        /\ (Policy.mode = "prompt_uninstall" /\ status = "running" /\ pc' # pc
               /\ parts[pc].op = "MessageBox" /\ parts[pc].args[1] = "MB_YESNO|MB_ICONQUESTION")
           => /\ Last(shown').answer = "IDYES" => parts[SkipLog(pc')].op = "ExecWait"
              /\ Last(shown').answer = "IDNO" => parts[pc'].op = "Abort"
      ]_vars

\* the directory page finds version 2.0.0, the user agrees, the uninstaller succeeds
C14_Witness ==
    /\ Policy.mode = "prompt_uninstall"
    /\ Policy.show_version_info
    /\ fn = "ExistingInstall_DirLeave"
    /\ InstalledVersion = "2.0.0"
    /\ status = "returned"
    /\ Len(shown) = 1
    /\ shown[1].text \in PromptVer
    /\ shown[1].answer = "IDYES"
    /\ runs = 1

-----------------------------------------------------------------------------
(* C15: validate_references                                                *)

\* the references validate_references had to report for `text`: the '${path}'
\* matches with no value at the path and the '$NAME' matches whose name is
\* neither a built-in nor a custom variable
AbsentConfigRefs ==
    LET refs == ConfigRefs(text, 1)
    IN {k \in 1..Len(refs) : _get_value_by_path(refs[k]).t = "none"}

AbsentNames ==
    LET names == BuiltinRefs(text, 1)
    IN {k \in 1..Len(names) :
          ~ \/ Len(names[k]) = 1 /\ names[k][1] \in DOMAIN BUILTIN_VARIABLES
            \/ names[k] \in custom_vars}

AbsentRefs ==
    {RefTo(ConfigRefs(text, 1)[k]) : k \in AbsentConfigRefs}
    \cup {<<"$">> \o BuiltinRefs(text, 1)[k] : k \in AbsentNames}

-----------------------------------------------------------------------------
(* C16: a built-in variable without a token for the target tool            *)

\* the built-in names that `text` refers to as '$NAME', escapes set aside
BuiltinNamesOf(s) ==
    LET names == BuiltinRefs(ProtectEscapes(s, 1), 1)
    IN {names[k][1] : k \in {j \in 1..Len(names) :
                               Len(names[j]) = 1 /\ names[j][1] \in DOMAIN BUILTIN_VARIABLES}}

\* C16: get_value raises a ValueError that lists the tools with a token when
\* the target tool has none, and then resolve_builtin_var and resolve fail as
\* well: neither returns nothing, nor leaves '$NAME' in the output.
C16_NoTokenIsError ==
    \A name \in DOMAIN BUILTIN_VARIABLES :
        target_tool \notin DOMAIN BUILTIN_VARIABLES[name]
        => /\ get_value(BUILTIN_VARIABLES[name], target_tool).status = "ValueError"
           /\ get_value(BUILTIN_VARIABLES[name], target_tool).mentions = {"nsis", "wix", "inno"}
           /\ resolve_builtin_var(<<name>>) # None
           /\ (calls >= 1 /\ ConfigRefs(text, 1) = <<>> /\ name \in BuiltinNamesOf(text))
              => result.status # "ok"

-----------------------------------------------------------------------------
(* C17: the version check                                                  *)

\* what an execution that took the decision edge of the mode ends with
EdgeTaken ==
    CASE Policy.mode = "prompt_uninstall" ->
            /\ shown # <<>>
            /\ shown[1].text \in PromptVer \cup PromptNoVer
            /\ shown[1].answer = "IDYES" => runs >= 1
            /\ shown[1].answer = "IDNO" => status = "aborted"
      [] Policy.mode = "auto_uninstall" -> runs >= 1
      [] Policy.mode = "overwrite" -> status = "returned" /\ shown = <<>> /\ runs = 0
      [] Policy.mode = "abort" ->
            /\ status = "aborted"
            /\ runs = 0
            /\ Len(shown) = 1
            /\ shown[1].text \in AbortVer \cup AbortNoVer
      [] OTHER -> TRUE

-----------------------------------------------------------------------------
(* C18: the indices of the shortcuts                                       *)

\* the shortcut configurations of a configuration that have a target, in the order
\* global desktop, global start menu, global list, then component by component
WithTarget(c) ==
    LET Opt(shortcut) == IF shortcut.some /\ shortcut.v.target # "" THEN <<shortcut.v.target>> ELSE <<>>
        List(shortcuts) == SelectSeq([i \in 1..Len(shortcuts) |-> shortcuts[i].target], LAMBDA t : t # "")
        flat == _flatten_packages(c.packages)
    IN Opt(c.install.desktop_shortcut) \o Opt(c.install.start_menu_shortcut) \o List(c.install.shortcuts)
       \o Flatten([k \in 1..Len(flat) |->
              Opt(flat[k].desktop_shortcut) \o Opt(flat[k].start_menu_shortcut) \o List(flat[k].shortcuts)])

\* the lines of `parts` that create a link, and those of the emitted removal code
Created == {parts[p].args[1] : p \in {q \in 1..Len(parts) : parts[q].op = "CreateShortCut"}}
Deleted == {parts[p].args[1] : p \in {q \in 1..Len(parts) : parts[q].op = "Delete"}}

\* C18: collect_all_shortcuts returns, at every call of a compilation, the same
\* entries, numbered 0..n-1 in the order global desktop, global start menu, global
\* list, components in leaf order, entries without target left out; the default of
\* $CREATE_SC_<i> set in .onInit is the state of entry i, the creation code guarded
\* by $CREATE_SC_<i> creates the link of entry i, the removal code deletes the link
\* of every entry, and every link the creation code creates is deleted by the
\* removal code.
C18_ShortcutIndicesStable ==
    LET all_sc == collect_all_shortcuts(ctx)
        n == Len(all_sc)
    IN /\ collect_all_shortcuts(SetLocations(ctx)) = all_sc
       /\ \A k \in 1..n : all_sc[k].idx = k - 1
       /\ [k \in 1..n |-> all_sc[k].config.target] = WithTarget(ctx)
       /\ \A p \in 1..Len(parts) :
             \A k \in 1..n :
                /\ (parts[p].op = "StrCpy" /\ parts[p].args[1] = "$CREATE_SC_" \o ToString(k - 1))
                   => parts[p].args[2] = (IF ~all_sc[k].config.optional \/ all_sc[k].config.default
                                          THEN "1" ELSE "0")
                /\ (parts[p].op = "StrCmp" /\ parts[p].args[1] = "$CREATE_SC_" \o ToString(k - 1))
                   => \E q \in (p + 3)..(p + 4) :
                         /\ parts[q].op = "CreateShortCut"
                         /\ parts[q].args[1] = _shortcut_link_path(ctx, all_sc[k])
       /\ stage >= 5 => /\ Created \subseteq Deleted
                        /\ \A k \in 1..n : _shortcut_link_path(ctx, all_sc[k]) \in Deleted
       /\ stage = 8 => \A k \in 1..n :
                          \E p \in 1..Len(parts) :
                              /\ parts[p].op = "StrCpy"
                              /\ parts[p].args[1] = "$CREATE_SC_" \o ToString(k - 1)

\* a compilation with a desktop shortcut, a start-menu shortcut, a listed shortcut
\* without target and an optional listed one: three entries, link 2 is created
\* under its guard and deleted, and the uninstaller link is deleted
C18_Witness ==
    /\ stage = 8
    /\ ctx.install.desktop_shortcut.some
    /\ ctx.install.start_menu_shortcut.some
    /\ Len(ctx.install.shortcuts) = 2
    /\ ctx.install.shortcuts[1].target = ""
    /\ Len(collect_all_shortcuts(ctx)) = 3
    /\ collect_all_shortcuts(ctx)[3].config.optional
    /\ \E p \in 1..Len(parts) : parts[p].op = "StrCmp" /\ parts[p].args[1] = "$CREATE_SC_2"
    /\ _shortcut_link_path(ctx, collect_all_shortcuts(ctx)[3]) \in Created \cap Deleted
    /\ "$SMPROGRAMS\\${APP_NAME}\\Uninstall.lnk" \in Created \cap Deleted

-----------------------------------------------------------------------------
(* C19: the comparison of the bounded wait loop                            *)

\* C19: with a non-negative uninstall_wait_ms, the comparison of the wait loop of
\* the .onInit check asks whether the elapsed time has reached the bound: with the
\* counter below the bound and Uninstall.exe present the loop goes on to sleep
\* and poll; with the counter at or above the bound it leaves the loop for the
\* timeout handling; so with a positive bound the first comparison, at counter 0,
\* goes on to a poll.
C19_ComparisonReachedBound ==
    [][ (Policy.uninstall_wait_ms >= 0 /\ fn = ".onInit" /\ status = "running"
            /\ InLoop(pc) /\ parts[pc].op = "IntCmp" /\ pc' # pc)
        => LET elapsed == Num(regs["$R3"])
           IN /\ (elapsed < Policy.uninstall_wait_ms /\ FileExists("$R1\\Uninstall.exe"))
                 => parts[pc'].op = "Sleep" /\ InLoop(pc')
              /\ elapsed >= Policy.uninstall_wait_ms => ~InLoop(pc')
      ]_vars

-----------------------------------------------------------------------------
(* C20: the check of the directory page and the check of .onInit           *)

\* line p is the retry/cancel prompt
RetryPrompt(p) == parts[p].op = "MessageBox" /\ parts[p].args[1] = "MB_RETRYCANCEL|MB_ICONEXCLAMATION"

\* the uninstall-and-wait sub-state of the routine that is running: the flow comes
\* to the retry/cancel prompt (log lines aside) only from a test that found
\* Uninstall.exe still present, and with a negative uninstall_wait_ms the start of
\* the uninstaller is followed by the poll loop, which begins with Sleep
SubStateStep ==
    (status = "running" /\ pc' # pc)
    => /\ (parts[pc].op # "!insertmacro" /\ status' = "running" /\ RetryPrompt(SkipLog(pc')))
          => parts[pc].op = "IfFileExists" /\ FileExists(parts[pc].args[1])
       /\ (Policy.uninstall_wait_ms < 0 /\ parts[pc].op = "ExecWait")
          => parts[Forward(parts, pc', 1)].op = "Sleep"

\* C20: ExistingInstall_DirLeave is the state machine of the .onInit check: for
\* every policy it has the uninstall-and-wait sub-state of the .onInit check, with
\* the poll for the disappearance of the uninstaller (unbounded for a negative
\* uninstall_wait_ms) and the retry/cancel prompt only after the file was found
\* still present.
C20_SameStateMachine ==
    [][ (fn \in {".onInit", "ExistingInstall_DirLeave"}) => SubStateStep ]_vars

-----------------------------------------------------------------------------
(* C21, C22, C23: the resolution stack and the depth counter               *)

RECURSIVE Entries(_, _, _, _), EntriesFrom(_, _, _, _, _)
\* the entries of resolve made by the call resolve(s, depth) on resolution stack
\* `stack`, the call itself included: the literal entered, the depth passed, the
\* resolution stack at that moment, and the paths whose replace_match is in
\* progress (the call path)
Entries(s, depth, stack, path) ==
    {[text |-> s, depth |-> depth, stack |-> stack, path |-> path]}
    \cup IF IsEmptyText(s) \/ DepthExceeded(depth) THEN {}
         ELSE EntriesFrom(s, 1, depth, stack, path)

\* the entries made by the matches of s from position pos on
EntriesFrom(s, pos, depth, stack, path) ==
    LET m == NextConfigRef(s, pos)
    IN IF m.start = 0 THEN {}
       ELSE LET ref_path == SubSeq(s, m.start + 2, m.end - 1)
                value == _get_value_by_path(ref_path)
                r == replace_match(ref_path, SubSeq(s, m.start, m.end), depth, stack)
            IN (IF InResolvingStack(ref_path, stack) \/ value.t = "none" THEN {}
                ELSE Entries(Str(value), depth + 1, stack \cup {ref_path}, Append(path, ref_path)))
               \cup (IF r.status # "ok" THEN {} ELSE EntriesFrom(s, m.end + 1, depth, r.stack, path))

\* the entries of the top-level call resolve(text)
TopEntries == Entries(text, 0, {}, <<>>)

\* C21: at every entry of resolve the resolution stack is the set of the paths on
\* the call path; after a top-level call has returned or raised the stack is
\* empty, a second call gives what a fresh resolver gives, and no
\* CircularReferenceError is raised unless a path is referenced while its own
\* resolution is in progress (referring to a path twice in a row is no cycle).
C21_StackIsCallPath ==
    /\ calls >= 1 => /\ _resolving_stack = {}
                     /\ result.stack = {}
    /\ calls = 1 => /\ \A e \in TopEntries : e.stack = {e.path[k] : k \in 1..Len(e.path)}
                    /\ result.status = "CircularReferenceError"
                       => \E e \in TopEntries : \E i \in 1..Len(e.text) :
                              /\ ConfigRefAt(e.text, i)
                              /\ \E k \in 1..Len(e.path) :
                                    RefTo(e.path[k]) = SubSeq(e.text, i, i + Len(e.path[k]) + 2)
    /\ calls = 2 => again = resolve(result.text, 0, {})

\* '${app.name}${paths.base}${app.name}': app.name is referenced by the text, by
\* the literal of paths.base and by the text again; both calls return
C21_Witness ==
    /\ calls = 2
    /\ config = BaseConfig
    /\ text = P_name \o P_base \o P_name
    /\ result.status = "ok"
    /\ again.status = "ok"
    /\ _resolving_stack = {}
    /\ Cardinality(TopEntries) = 4

\* C22: depth counts the nesting: at every entry of resolve the depth passed is
\* the number of path references in progress, which is the size of the resolution
\* stack, however many sibling references came before; the depth error is raised
\* exactly when a non-empty literal is entered at a depth above MAX_DEPTH, so a
\* chain of MAX_DEPTH dereferences resolves and one of MAX_DEPTH + 1 fails.
C22_DepthIsNesting ==
    calls = 1 =>
        /\ \A e \in TopEntries : /\ e.depth = Len(e.path)
                                 /\ e.depth = Cardinality(e.stack)
        /\ result.status = "RecursionError"
           <=> \E e \in TopEntries : ~IsEmptyText(e.text) /\ e.depth > MAX_DEPTH
        /\ \A n \in 1..MaxChain :
              config = ChainConfig(n) /\ text = RefTo(<<KeyNames[1]>>)
              => IF n <= MAX_DEPTH THEN result.status = "ok" /\ result.text = <<"value">>
                 ELSE result.status = "RecursionError"

\* a chain of exactly MAX_DEPTH dereferences has resolved; its last literal was
\* entered at depth MAX_DEPTH
C22_Witness ==
    /\ calls = 1
    /\ config = ChainConfig(MAX_DEPTH)
    /\ text = RefTo(<<KeyNames[1]>>)
    /\ result.status = "ok"
    /\ \E e \in TopEntries : e.depth = MAX_DEPTH /\ Cardinality(e.stack) = MAX_DEPTH

\* C23: resolve ends on every configuration and text: it returns a string or
\* raises the CircularReferenceError or the depth error, no entry of resolve is
\* deeper than MAX_DEPTH + 1, and a cycle longer than MAX_DEPTH is ended by the
\* depth guard before the cycle closes.
C23_Terminates ==
    calls = 1 =>
        /\ result.status \in {"ok", "CircularReferenceError", "RecursionError"}
        /\ \A e \in TopEntries : e.depth <= MAX_DEPTH + 1
        /\ \A n \in 1..MaxCycle :
              config = CycleConfig(n) /\ text = RefTo(<<KeyNames[1]>>)
              => IF n <= MAX_DEPTH THEN result.status = "CircularReferenceError"
                 ELSE result.status = "RecursionError"

\* a cycle of MAX_DEPTH + 1 paths has ended with the depth error
C23_Witness ==
    /\ calls = 1
    /\ config = CycleConfig(MAX_DEPTH + 1)
    /\ text = RefTo(<<KeyNames[1]>>)
    /\ result.status = "RecursionError"
    /\ \E e \in TopEntries : e.depth = MAX_DEPTH + 1

-----------------------------------------------------------------------------
(* C24: the '$$' escape across a nested resolution                         *)

\* C24: a configuration literal with '$$NAME' that is reached through '${p}'
\* gives the literal '$NAME' in the result of the top-level call, on every
\* tool: the NAME is not replaced by the tool's token ('${esc}' with
\* esc = '$$INSTDIR' resolves to '$INSTDIR').
C24_EscapeConsumedOnce ==
    (calls >= 1 /\ config = BaseConfig /\ text = P_esc)
    => result.status = "ok" /\ result.text = <<"$", "INSTDIR">>

-----------------------------------------------------------------------------
(* C25: validate_references against resolve                                *)

\* what validate_references reported: the list it returned, or the references
\* named by the ValueError of strict mode
Reported ==
    IF validation.status = "ValueError" THEN validation.mentions ELSE validation.unknown

\* C25: validate_references and resolve agree on a text: a '${path}' is reported
\* exactly when resolve leaves it in place as unknown, the NAME of an escaped
\* '$$NAME' is not reported, and a '$NAME' that validate_references accepts, as
\* a built-in or as a custom variable of config['variables'], is substituted by
\* resolve.
C25_ValidateAgreesWithResolve ==
    validation.status # "none" =>
        LET r == resolve(text, 0, {})
        IN /\ text \in {P_name, P_base, P_unknown, P_null, P_nonmap}
              => (Reported # <<>> <=> (r.status = "ok" /\ r.text = text))
           /\ \A name \in UpperAtoms :
                 text = <<"$", "$", name>> \o P_rest => Reported = <<>>
           /\ \A name \in UpperAtoms :
                 (text = <<"$", name>> /\ Reported = <<>>)
                 => /\ r.status = "ok"
                    /\ resolve_builtin_var(<<name>>).some
                    /\ r.text = resolve_builtin_var(<<name>>).v

-----------------------------------------------------------------------------
(* C26: the PATH helper routines                                           *)

\* a line that calls one of the PATH helper routines
CallsPathHelper(line) ==
    line.op = "Call" /\ line.args \in {<<"_StrContains">>, <<"un._RemovePathEntry">>}

\* the script holds the PATH helper fragment
HasPathHelpers ==
    /\ \E i \in 1..Len(parts) : parts[i] = Ins("Function", <<"_StrContains">>, <<>>)
    /\ \E i \in 1..Len(parts) : parts[i] = Ins("Function", <<"un._RemovePathEntry">>, <<>>)

\* C26: every call of a PATH helper routine (Call _StrContains of the install
\* code, Call un._RemovePathEntry of the uninstall code) is in a script that
\* holds the PATH helper fragment, whether the PATH-append entry is one of
\* install.env_vars or one of a component.
C26_PathHelpersPresent ==
    (\E i \in 1..Len(parts) : CallsPathHelper(parts[i])) => HasPathHelpers

-----------------------------------------------------------------------------
(* C27: the groups of the component sections                               *)

RECURSIVE NonLeaves(_), Skeleton(_)
\* the components with children, in pre-order
NonLeaves(pkg_list) ==
    IF pkg_list = <<>> THEN <<>>
    ELSE LET pkg == Head(pkg_list)
         IN (IF pkg.children # <<>> THEN <<pkg>> \o NonLeaves(pkg.children) ELSE <<>>)
            \o NonLeaves(Tail(pkg_list))

\* the nesting of a component tree in which every component with children is a
\* group: the names of the opening lines, and "" for a closing line
Skeleton(pkg_list) ==
    IF pkg_list = <<>> THEN <<>>
    ELSE LET pkg == Head(pkg_list)
         IN (IF pkg.children # <<>> THEN <<pkg.name>> \o Skeleton(pkg.children) \o <<"">>
             ELSE <<pkg.name, "">>)
            \o Skeleton(Tail(pkg_list))

IsGroupLine(line) == line.op = "SectionGroup"

IsOpenOrClose(line) ==
    \/ line.op \in {"SectionGroup", "SectionGroupEnd", "SectionEnd"}
    \/ line.op = "Section" /\ Len(line.args) = 2

\* the name an opening line shows, "" for a closing line
ShownName(line) ==
    CASE line.op = "Section" -> line.args[1]
      [] line.op = "SectionGroup" -> line.args[Len(line.args) - (IF Len(line.args) = 3 THEN 1 ELSE 0)]
      [] OTHER -> ""

\* the SectionGroup lines of the component sections
GroupLines == SelectSeq(generate_package_sections(ctx), IsGroupLine)

-----------------------------------------------------------------------------
(* C28: the script texts handed out                                        *)

\* the text holds a lowercase dotted reference that has a value in the configuration
HoldsConfigRef(s) == s \in DOMAIN SubstitutionTable

\* C28: every script text handed out, the return value of convert() that the web
\* endpoint sends and the file save() writes, has passed the whole pipeline, the
\* final substitution included: it is what the substitution makes of the
\* filtered and reordered lines, and no text of it holds a lowercase dotted
\* '${path}' that has a value in the configuration.
C28_FullPipeline ==
    script.by # "none" =>
        /\ script.lines = Substituted(ctx, convert(parts))
        /\ \A i \in 1..Len(script.lines) : \A k \in 1..Len(script.lines[i].args) :
              ~HoldsConfigRef(script.lines[i].args[k])


-----------------------------------------------------------------------------
(* C29: the configuration across the generators                            *)

\* C29: the generators only read the configuration: across every generator
\* call, and so across every enumeration of the shortcuts, every field of the
\* configuration, the location of the desktop and start-menu shortcuts
\* included, keeps the value it had before.
C29_GeneratorsOnlyRead == [][stage' # stage => ctx' = ctx]_vars

-----------------------------------------------------------------------------
(* C30: the previous uninstaller is run only after it was found            *)

\* Uninstall.exe exists in the directory the check is keyed on
UninstallerAtCheckedDir == CheckedDir # "" /\ CheckedDir \in world.uninstallers

\* the lines of Function .onInit
OnInitBody ==
    LET first == FunctionLine(parts, ".onInit")
    IN {i \in first..Len(parts) : \A k \in first..(i - 1) : parts[k].op # "FunctionEnd"}

=============================================================================
